---- MODULE Spec2Model ----
(***************************************************************************)
(* Model of the resilience layer of ai-health-tracker.                     *)
(*                                                                         *)
(* Part 1: CircuitBreaker (src/src/utils/circuit-breaker.ts), Spec.        *)
(* Part 2: withRetry (src/src/utils/index.ts), RetrySpec.                  *)
(* Part 3: LiteLLMAdapter.chatSync and its cache (src/unnamed/part_006),   *)
(*         GwSpec.                                                         *)
(* Part 4: the cache at its size limit, CacheSpec.                         *)
(* Part 5: LiteLLMAdapter.getCacheKey, KeySpec.                            *)
(* Part 6: LiteLLMAdapter.chat and its stream of chunks, StreamSpec.       *)
(* Part 7: LiteLLMAdapter.isAvailable, AvailSpec.                          *)
(* Part 8: CircuitBreaker once the operation is healthy again, LiveSpec.   *)
(*                                                                         *)
(* The runtime is a single-threaded event loop: a handler runs to its next *)
(* await without interleaving.  CircuitBreaker.execute therefore splits in *)
(* two atomic steps: the entry (totalCalls++, the OPEN gate, the           *)
(* synchronous invocation of fn inside executeWithTimeout) and the         *)
(* continuation after the await (onSuccess / onFailure and the return or   *)
(* rethrow).  Any number of calls may sit between the two steps.           *)
(*                                                                         *)
(* Time is Date.now() counted in abstract units, starting at 1 (Date.now() *)
(* is never 0, and lastFailureTime = null is represented by 0, the only    *)
(* falsy number, exactly as the test !this.lastFailureTime reads it).      *)
(***************************************************************************)
EXTENDS Integers, Sequences, FiniteSets, TLC

\* ------------------------------------------------------------- bounds
MaxCalls == 5               \* execute invocations issued in one behaviour
MaxInflight == 2            \* operations running at once
MaxTime == 3                \* last instant of the clock
MaxFailureThreshold == 3    \* failureThreshold ranges over 1..this
MaxSuccessThreshold == 2    \* successThreshold ranges over 1..this

\* resetTimeout and timeout, in time units: a breaker whose calls time out
\* before it may probe again, and one whose calls can outlast the OPEN period
Timings == {[resetTimeout |-> 2, timeout |-> 1], [resetTimeout |-> 1, timeout |-> 2]}

Calls == 1..MaxCalls

\* errors an operation may reject with, and the value it may resolve with
OpErrors == {"fail", "ECONNREFUSED"}
OpValue == "success"
\* new Error(`Circuit breaker timeout after ${timeout}ms`)
TimeoutError == "Circuit breaker timeout"
\* new Error(`[CircuitBreaker:${name}] Circuit is OPEN - service unavailable`)
CircuitOpenError == "Circuit is OPEN"
\* what a configured fallback may produce
FallbackValue == "fallback result"
FallbackError == "fallback failed"

NoOutcome == [kind |-> "none", val |-> "none"]
Returned(v) == [kind |-> "returned", val |-> v]
Threw(e) == [kind |-> "threw", val |-> e]

NoStreak == 0 - 1

VARIABLES
    cb,          \* the CircuitBreaker instance's private fields
    config,      \* its CircuitBreakerConfig (fixed after construction)
    now,         \* Date.now()
    ncalls,      \* number of execute invocations issued so far
    rejected,    \* how many of them went to handleOpenCircuit
    pending,     \* the execute calls awaiting the race of executeWithTimeout,
                 \* in admission order: for each, the instant its timer is due
    abandoned,   \* operations still running whose call threw the timeout error
    last,        \* what the last step other than a clock tick did, see Event
    failStreak,  \* failed executes in a row since CLOSED with failures = 0
    succStreak,  \* successful executes in a row since entering HALF_OPEN
    probeAt,     \* position in pending of the call that last moved the breaker
                 \* from OPEN to HALF_OPEN, 0 once that call has finished
    rt,          \* one withRetry invocation (part 2)
    gw           \* one LiteLLMAdapter instance and its callers (part 3)

vars == <<cb, config, now, ncalls, rejected, pending, abandoned, last, failStreak,
          succStreak, probeAt, rt, gw>>

\* the variables of the other parts, which a breaker step leaves alone
others == <<rt, gw>>

\* parts 2 and 3 not running
NoRetry == [pc |-> "off"]
NoGateway == [pc |-> "off"]

\* positions in the sequence of pending calls
Slots == 1..MaxInflight

\* What a step did:
\*   kind   "admit", "reject", "success", "failure", "timeout", "late", "reset"
\*   from   the breaker's state before the step
\*   at     Date.now() at the step, for a failed execute (0 otherwise)
\*   fn     how many times the step invoked the operation fn
\*   fb     how many times the step invoked config.fallback
\*   op     what fn settled with in this step ("none" if it did not settle)
\*   fbout  what the fallback produced in this step (NoOutcome if not invoked)
\*   out    what execute handed to its caller in this step (NoOutcome if nothing)
NoEvent ==
    [kind |-> "init", from |-> "CLOSED", at |-> 0, fn |-> 0, fb |-> 0,
     op |-> "none", fbout |-> NoOutcome, out |-> NoOutcome]

Event(kind, from) == [NoEvent EXCEPT !.kind = kind, !.from = from]

\* number of execute calls awaiting their race
Inflight == Len(pending)

\* the pending calls without the i-th
Without(q, i) == [j \in 1..(Len(q) - 1) |-> IF j < i THEN q[j] ELSE q[j + 1]]

\* ------------------------------------------------------------- CircuitBreaker

\* the field initialisers of the class
NewBreaker ==
    [state |-> "CLOSED", failures |-> 0, successes |-> 0, lastFailureTime |-> 0,
     totalCalls |-> 0, totalFailures |-> 0, totalSuccesses |-> 0]

\* the configurations a breaker is constructed with
Configs ==
    {[failureThreshold |-> f, resetTimeout |-> tm.resetTimeout,
      successThreshold |-> s, timeout |-> tm.timeout, fallback |-> fb] :
        f \in 1..MaxFailureThreshold, s \in 1..MaxSuccessThreshold,
        tm \in Timings, fb \in BOOLEAN}

\* open() leaving the success count as it is
open_keepSuccesses(b) == [b EXCEPT !.state = "OPEN"]

open(b) == [b EXCEPT !.state = "OPEN", !.successes = 0]

\* close() leaving the failure count as it is
close_keepFailures(b) == [b EXCEPT !.state = "CLOSED", !.successes = 0]

close(b) == [b EXCEPT !.state = "CLOSED", !.failures = 0, !.successes = 0]

\* onSuccess closing only above the threshold (> for >=)
onSuccess_strictThreshold(b, cfg) ==
    LET b1 == [b EXCEPT !.totalSuccesses = @ + 1] IN
    IF b1.state = "HALF_OPEN"
    THEN LET b2 == [b1 EXCEPT !.successes = @ + 1] IN
         IF b2.successes > cfg.successThreshold THEN close(b2) ELSE b2
    ELSE [b1 EXCEPT !.failures = 0]

\* onSuccess counting towards close() in every state but CLOSED
onSuccess_countsWhenOpen(b, cfg) ==
    LET b1 == [b EXCEPT !.totalSuccesses = @ + 1] IN
    IF b1.state # "CLOSED"
    THEN LET b2 == [b1 EXCEPT !.successes = @ + 1] IN
         IF b2.successes >= cfg.successThreshold THEN close(b2) ELSE b2
    ELSE [b1 EXCEPT !.failures = 0]

\* onSuccess that leaves the success count standing when it closes
onSuccess_closeKeepsSuccesses(b, cfg) ==
    LET b1 == [b EXCEPT !.totalSuccesses = @ + 1] IN
    IF b1.state = "HALF_OPEN"
    THEN LET b2 == [b1 EXCEPT !.successes = @ + 1] IN
         IF b2.successes >= cfg.successThreshold
         THEN [b2 EXCEPT !.state = "CLOSED", !.failures = 0] ELSE b2
    ELSE [b1 EXCEPT !.failures = 0]

onSuccess(b, cfg) ==
    LET b1 == [b EXCEPT !.totalSuccesses = @ + 1] IN
    IF b1.state = "HALF_OPEN"
    THEN LET b2 == [b1 EXCEPT !.successes = @ + 1] IN
         IF b2.successes >= cfg.successThreshold THEN close(b2) ELSE b2
    ELSE [b1 EXCEPT !.failures = 0]

\* onFailure opening only above the threshold (> for >=)
onFailure_strictThreshold(b, cfg, t) ==
    LET b1 == [b EXCEPT !.totalFailures = @ + 1, !.failures = @ + 1,
                        !.lastFailureTime = t] IN
    IF b1.state = "HALF_OPEN" THEN open(b1)
    ELSE IF b1.failures > cfg.failureThreshold THEN open(b1)
    ELSE b1

\* onFailure without the HALF_OPEN branch: the threshold applies in every state
onFailure_thresholdInHalfOpen(b, cfg, t) ==
    LET b1 == [b EXCEPT !.totalFailures = @ + 1, !.failures = @ + 1,
                        !.lastFailureTime = t] IN
    IF b1.failures >= cfg.failureThreshold THEN open(b1)
    ELSE b1

onFailure(b, cfg, t) ==
    LET b1 == [b EXCEPT !.totalFailures = @ + 1, !.failures = @ + 1,
                        !.lastFailureTime = t] IN
    IF b1.state = "HALF_OPEN" THEN open(b1)
    ELSE IF b1.failures >= cfg.failureThreshold THEN open(b1)
    ELSE b1

\* shouldAttemptReset with > for >=
shouldAttemptReset_strict(b, cfg, t) ==
    IF b.lastFailureTime = 0 THEN TRUE
    ELSE t - b.lastFailureTime > cfg.resetTimeout

shouldAttemptReset(b, cfg, t) ==
    IF b.lastFailureTime = 0 THEN TRUE
    ELSE t - b.lastFailureTime >= cfg.resetTimeout

\* reset that also zeroes the lifetime counters
reset_lifetimeCounters(b) ==
    [b EXCEPT !.state = "CLOSED", !.failures = 0, !.successes = 0,
              !.lastFailureTime = 0, !.totalCalls = 0, !.totalFailures = 0,
              !.totalSuccesses = 0]

\* reset that forgets to zero the failure count
reset_keepFailures(b) ==
    [b EXCEPT !.state = "CLOSED", !.successes = 0, !.lastFailureTime = 0]

reset(b) ==
    [b EXCEPT !.state = "CLOSED", !.failures = 0, !.successes = 0,
              !.lastFailureTime = 0]

isHealthy(b) == b.state # "OPEN"

getStats(b) ==
    [state |-> b.state, failures |-> b.failures, successes |-> b.successes,
     lastFailure |-> b.lastFailureTime, totalCalls |-> b.totalCalls,
     totalFailures |-> b.totalFailures, totalSuccesses |-> b.totalSuccesses]

\* execute counting a call only once it is admitted
executeEntry_countAdmitted(b, cfg, t) ==
    IF b.state = "OPEN"
    THEN IF shouldAttemptReset(b, cfg, t)
         THEN [b |-> [b EXCEPT !.state = "HALF_OPEN", !.totalCalls = @ + 1],
               admit |-> TRUE]
         ELSE [b |-> b, admit |-> FALSE]
    ELSE [b |-> [b EXCEPT !.totalCalls = @ + 1], admit |-> TRUE]

\* execute stamping the time of a rejection as a failure time
executeEntry_rejectRefreshes(b, cfg, t) ==
    LET b1 == [b EXCEPT !.totalCalls = @ + 1] IN
    IF b1.state = "OPEN"
    THEN IF shouldAttemptReset(b1, cfg, t)
         THEN [b |-> [b1 EXCEPT !.state = "HALF_OPEN"], admit |-> TRUE]
         ELSE [b |-> [b1 EXCEPT !.lastFailureTime = t], admit |-> FALSE]
    ELSE [b |-> b1, admit |-> TRUE]

\* execute up to the try block: the breaker after totalCalls++ and the OPEN
\* gate, and whether the call goes on to executeWithTimeout
executeEntry(b, cfg, t) ==
    LET b1 == [b EXCEPT !.totalCalls = @ + 1] IN
    IF b1.state = "OPEN"
    THEN IF shouldAttemptReset(b1, cfg, t)
         THEN [b |-> [b1 EXCEPT !.state = "HALF_OPEN"], admit |-> TRUE]
         ELSE [b |-> b1, admit |-> FALSE]
    ELSE [b |-> b1, admit |-> TRUE]

\* executeWithTimeout calling fn a second time
executeWithTimeout_twice(cfg, t) == [fn |-> 2, deadline |-> t + cfg.timeout]

\* executeWithTimeout, synchronous part: fn() is called once and the timer is
\* armed timeout ms from now; the number of fn invocations and the deadline
executeWithTimeout(cfg, t) == [fn |-> 1, deadline |-> t + cfg.timeout]

\* what config.fallback() can produce
FallbackResults == {Returned(FallbackValue), Threw(FallbackError)}

\* handleOpenCircuit ignoring the configured fallback
handleOpenCircuit_noFallback(cfg) ==
    {[fb |-> 0, fbout |-> NoOutcome, out |-> Threw(CircuitOpenError)]}

\* handleOpenCircuit: what it can do: the number of fallback invocations, what
\* the fallback produced and what the caller gets
handleOpenCircuit(cfg) ==
    IF cfg.fallback
    THEN {[fb |-> 1, fbout |-> r, out |-> r] : r \in FallbackResults}
    ELSE {[fb |-> 0, fbout |-> NoOutcome, out |-> Threw(CircuitOpenError)]}

\* what execute hands back when the awaited race resolved with v
executeReturn(v) == Returned(v)

\* execute wrapping the error it caught in a new one
executeRethrow_wrapped(e) == Threw("CircuitBreaker: operation failed")

\* what execute hands back when the awaited race rejected with e
executeRethrow(e) == Threw(e)

\* ------------------------------------------------------------- streaks

\* after a breaker event that is not a failed execute
FailStreakAfter(b) == IF b.state = "CLOSED" /\ b.failures = 0 THEN 0 ELSE NoStreak

\* ------------------------------------------------------------- actions

Init ==
    /\ cb = NewBreaker
    /\ config \in Configs
    /\ now = 1
    /\ ncalls = 0
    /\ rejected = 0
    /\ pending = <<>>
    /\ abandoned = 0
    /\ last = NoEvent
    /\ failStreak = 0
    /\ succStreak = NoStreak
    /\ probeAt = 0
    /\ rt = NoRetry
    /\ gw = NoGateway

\* where the probe sits once the i-th pending call has left the sequence
ProbeWithout(i) == IF i = probeAt THEN 0 ELSE IF i < probeAt THEN probeAt - 1 ELSE probeAt

\* execute(fn), entry, the call is admitted: fn is invoked inside
\* executeWithTimeout and the timer is armed
ExecuteAdmit ==
    /\ ncalls < MaxCalls
    /\ Inflight + abandoned < MaxInflight
    /\ LET r == executeEntry(cb, config, now)
           w == executeWithTimeout(config, now) IN
       /\ r.admit
       /\ cb' = r.b
       /\ ncalls' = ncalls + 1
       /\ pending' = Append(pending, w.deadline)
       /\ last' = [Event("admit", cb.state) EXCEPT !.fn = w.fn]
       /\ failStreak' = IF r.b.state = cb.state THEN failStreak ELSE NoStreak
       /\ succStreak' = IF r.b.state = cb.state THEN succStreak
                        ELSE IF r.b.state = "HALF_OPEN" THEN 0 ELSE NoStreak
       /\ probeAt' = IF cb.state = "OPEN" THEN Len(pending) + 1 ELSE probeAt
       /\ UNCHANGED <<config, now, rejected, abandoned, others>>

\* execute(fn), entry, the call is rejected: handleOpenCircuit
ExecuteReject ==
    /\ ncalls < MaxCalls
    /\ LET r == executeEntry(cb, config, now) IN
       /\ ~r.admit
       /\ cb' = r.b
       /\ ncalls' = ncalls + 1
       /\ rejected' = rejected + 1
       /\ \E h \in handleOpenCircuit(config) :
            last' = [Event("reject", cb.state) EXCEPT
                        !.fb = h.fb, !.fbout = h.fbout, !.out = h.out]
       /\ failStreak' = FailStreakAfter(r.b)
       /\ succStreak' = NoStreak
       /\ UNCHANGED <<config, now, pending, abandoned, probeAt, others>>

\* fn of the i-th pending call resolves before the timer fires: onSuccess,
\* execute returns the result
OpResolve(i) ==
    /\ i <= Len(pending)
    /\ cb' = onSuccess(cb, config)
    /\ pending' = Without(pending, i)
    /\ last' = [Event("success", cb.state) EXCEPT
                   !.op = OpValue, !.out = executeReturn(OpValue)]
    /\ failStreak' = FailStreakAfter(cb')
    /\ succStreak' = IF succStreak >= 0 /\ succStreak < config.successThreshold
                     THEN succStreak + 1 ELSE NoStreak
    /\ probeAt' = ProbeWithout(i)
    /\ UNCHANGED <<config, now, ncalls, rejected, abandoned, others>>

\* fn of the i-th pending call rejects with e before the timer fires:
\* onFailure, execute rethrows
OpReject(i, e) ==
    /\ i <= Len(pending)
    /\ cb' = onFailure(cb, config, now)
    /\ pending' = Without(pending, i)
    /\ last' = [Event("failure", cb.state) EXCEPT
                   !.at = now, !.op = e, !.out = executeRethrow(e)]
    /\ failStreak' = IF failStreak >= 0 THEN failStreak + 1 ELSE NoStreak
    /\ succStreak' = NoStreak
    /\ probeAt' = ProbeWithout(i)
    /\ UNCHANGED <<config, now, ncalls, rejected, abandoned, others>>

\* the timer of the i-th pending call fires first: the race rejects with the
\* timeout error, onFailure, execute rethrows; fn keeps running
Timeout(i) ==
    /\ i <= Len(pending)
    /\ now >= pending[i]
    /\ cb' = onFailure(cb, config, now)
    /\ pending' = Without(pending, i)
    /\ abandoned' = abandoned + 1
    /\ last' = [Event("timeout", cb.state) EXCEPT
                   !.at = now, !.out = executeRethrow(TimeoutError)]
    /\ failStreak' = IF failStreak >= 0 THEN failStreak + 1 ELSE NoStreak
    /\ succStreak' = NoStreak
    /\ probeAt' = ProbeWithout(i)
    /\ UNCHANGED <<config, now, ncalls, rejected, others>>

\* the settling of an abandoned operation handled like that of a pending one
LateSettle_observed(r) ==
    /\ abandoned > 0
    /\ abandoned' = abandoned - 1
    /\ cb' = IF r = OpValue THEN onSuccess(cb, config) ELSE onFailure(cb, config, now)
    /\ last' = [Event("late", cb.state) EXCEPT !.op = r]
    /\ UNCHANGED <<config, now, ncalls, rejected, pending, failStreak, succStreak,
                   probeAt, others>>

\* an operation abandoned by its timed-out call settles with r: the race is
\* already settled, nothing observes it
LateSettle(r) ==
    /\ abandoned > 0
    /\ abandoned' = abandoned - 1
    /\ last' = [Event("late", cb.state) EXCEPT !.op = r]
    /\ UNCHANGED <<cb, config, now, ncalls, rejected, pending, failStreak,
                   succStreak, probeAt, others>>

\* reset()
Reset ==
    /\ cb' = reset(cb)
    /\ last' = Event("reset", cb.state)
    /\ failStreak' = FailStreakAfter(cb')
    /\ succStreak' = NoStreak
    /\ UNCHANGED <<config, now, ncalls, rejected, pending, abandoned, probeAt, others>>

\* the clock advances; a due timer fires before time moves on
Tick ==
    /\ now < MaxTime
    /\ \A i \in 1..Len(pending) : now < pending[i]
    /\ now' = now + 1
    /\ UNCHANGED <<cb, config, ncalls, rejected, pending, abandoned, last,
                   failStreak, succStreak, probeAt, others>>

Next ==
    \/ ExecuteAdmit
    \/ ExecuteReject
    \/ \E i \in Slots : OpResolve(i)
    \/ \E i \in Slots, e \in OpErrors : OpReject(i, e)
    \/ \E i \in Slots : Timeout(i)
    \/ \E r \in {OpValue} \cup OpErrors : LateSettle(r)
    \/ Reset
    \/ Tick

Spec == Init /\ [][Next]_vars

\* ------------------------------------------------------------- step kinds

\* an execute invocation is issued in this step
ExecuteStep == ncalls' = ncalls + 1

\* an admitted call finishes in this step (its race settles)
FinishStep == Inflight' = Inflight - 1

\* an admitted call finishes by failing: fn rejected, or the timer fired
FailedStep == FinishStep /\ last'.kind \in {"failure", "timeout"}

\* now - lastFailureTimestamp >= resetTimeout, on the breaker's own fields
ResetTimeoutElapsed ==
    cb.lastFailureTime # 0 /\ now - cb.lastFailureTime >= config.resetTimeout

Totals(b) == <<b.totalCalls, b.totalFailures, b.totalSuccesses>>

\* ------------------------------------------------------------- C1

\* C1, first half: failureThreshold failed executes in a row, starting from a
\* CLOSED breaker with failures = 0, leave the breaker OPEN and not healthy.
C1_OpenAfterStreak ==
    failStreak >= config.failureThreshold
        => cb.state = "OPEN" /\ ~isHealthy(cb) /\ getStats(cb).state = "OPEN"

\* C1, second half: the execute issued next, less than resetTimeout after the
\* last of these failures, is rejected and does not invoke its operation.
C1_NextRejected ==
    (/\ failStreak >= config.failureThreshold
     /\ last.kind \in {"failure", "timeout"}
     /\ now - last.at < config.resetTimeout
     /\ ExecuteStep)
        => last'.kind = "reject" /\ last'.fn = 0 /\ Inflight' = Inflight

C2_Gate ==
    (cb.state = "OPEN" /\ ExecuteStep)
        => IF ResetTimeoutElapsed
           THEN last'.kind = "admit" /\ last'.fn = 1 /\ cb'.state = "HALF_OPEN"
                /\ Inflight' = Inflight + 1
           ELSE last'.kind = "reject" /\ last'.fn = 0 /\ cb'.state = "OPEN"
                /\ Inflight' = Inflight

\* C2: no step taken while OPEN starts an operation before resetTimeout has
\* elapsed since lastFailureTime, whatever is in flight.
C2_NoInvocation ==
    (cb.state = "OPEN" /\ ~ResetTimeoutElapsed)
        => Inflight' <= Inflight /\ last'.fn = 0

\* C2: while OPEN nothing is invoked until resetTimeout has elapsed since
\* lastFailureTime (which is always set while OPEN); the first execute at or
\* after that instant is admitted and moves the breaker to HALF_OPEN.
C2_OpenGate ==
    /\ [](cb.state = "OPEN" => cb.lastFailureTime # 0)
    /\ [][C2_Gate]_vars
    /\ [][C2_NoInvocation]_vars

\* a probe was admitted from OPEN exactly resetTimeout after the last failure,
\* while a call admitted before the trip is still in flight
C2_Witness ==
    /\ last.kind = "admit"
    /\ last.from = "OPEN"
    /\ cb.state = "HALF_OPEN"
    /\ now - cb.lastFailureTime = config.resetTimeout
    /\ Inflight = 2
    /\ rejected > 0

\* ------------------------------------------------------------- C3

\* C3: a failed call (error or timeout) finishing while HALF_OPEN moves the
\* breaker to OPEN in that step, whatever failureThreshold and the successes
\* counted so far, with successes = 0 and lastFailureTime = now, so that an
\* execute less than resetTimeout after it is not admitted.
C3_Step ==
    (cb.state = "HALF_OPEN" /\ FailedStep)
        => /\ cb'.state = "OPEN"
           /\ cb'.successes = 0
           /\ cb'.lastFailureTime = now
           /\ \A t \in now..MaxTime :
                t - now < config.resetTimeout => ~executeEntry(cb', config, t).admit

\* C3: one failed call in HALF_OPEN re-opens the breaker at once, zeroes the
\* success count and restarts the resetTimeout wait; every step satisfies C3_Step.
C3_HalfOpenFailureReopens == [][C3_Step]_vars

\* a call failed in HALF_OPEN below the failure threshold, and the breaker is
\* OPEN with the wait restarted
C3_Witness ==
    /\ last.kind \in {"failure", "timeout"}
    /\ last.from = "HALF_OPEN"
    /\ cb.failures < config.failureThreshold
    /\ cb.state = "OPEN"
    /\ cb.lastFailureTime = now

\* a call timed out in HALF_OPEN after a success had been counted there
C3_WitnessAfterSuccess ==
    /\ last.kind \in {"failure", "timeout"}
    /\ last.from = "HALF_OPEN"
    /\ config.successThreshold = 2
    /\ cb.totalSuccesses > 0
    /\ cb.state = "OPEN"

\* ------------------------------------------------------------- C4

C4_WitnessHalfOpen ==
    /\ config.failureThreshold = 3
    /\ config.successThreshold = 2
    /\ cb.totalFailures = 3
    /\ succStreak = 1
    /\ cb.state = "HALF_OPEN"
    /\ cb.successes = 1

\* ------------------------------------------------------------- C5

\* C5: a step in which fn rejects with e hands Threw(e) to the caller and has
\* counted the failure; a step hands a value to the caller only if fn resolved
\* with that value or the fallback was substituted while OPEN.
C5_Step ==
    /\ (FinishStep /\ last'.kind = "failure")
          => /\ last'.op \in OpErrors
             /\ last'.out = Threw(last'.op)
             /\ cb'.totalFailures = cb.totalFailures + 1
             /\ cb'.failures = cb.failures + 1
    /\ ((FinishStep \/ ExecuteStep) /\ last'.out.kind = "returned")
          => \/ last'.kind = "success" /\ last'.out = Returned(last'.op)
                /\ last'.op = OpValue
             \/ /\ last'.kind = "reject"
                /\ cb.state = "OPEN"
                /\ config.fallback
                /\ last'.fb = 1
                /\ last'.out = last'.fbout

\* C5: execute rethrows the operation's own error after counting the failure,
\* and returns a value without a success only for the fallback while OPEN;
\* every step satisfies C5_Step.
C5_ErrorsPropagate == [][C5_Step]_vars

\* an operation rejected with ECONNREFUSED and execute threw ECONNREFUSED
C5_Witness ==
    /\ last.kind = "failure"
    /\ last.op = "ECONNREFUSED"
    /\ last.out = Threw("ECONNREFUSED")
    /\ cb.totalFailures = 2

\* ------------------------------------------------------------- C6

\* C6: no call is still pending after its timer was due; the timer is armed
\* timeout after the admission; the step in which it fires hands the timeout
\* error to the caller and adds exactly one to totalFailures and to failures,
\* opening the breaker as any failure does; the later settling of the
\* abandoned operation changes nothing of the breaker.
C6_Step ==
    /\ (ExecuteStep /\ Inflight' = Inflight + 1)
          => pending' = Append(pending, now + config.timeout)
    /\ (FinishStep /\ last'.kind = "timeout")
          => /\ \E i \in 1..Len(pending) :
                   pending[i] = now /\ pending' = Without(pending, i)
             /\ last'.out = Threw(TimeoutError)
             /\ cb'.totalFailures = cb.totalFailures + 1
             /\ cb'.failures = cb.failures + 1
             /\ cb'.totalSuccesses = cb.totalSuccesses
             /\ (cb.state = "HALF_OPEN" \/ cb.failures + 1 >= config.failureThreshold)
                   => cb'.state = "OPEN"
             /\ abandoned' = abandoned + 1
    /\ abandoned' < abandoned
          => cb' = cb /\ Inflight' = Inflight

\* C6: a call not finished when its timeout expires counts as one failure, and
\* the abandoned operation's later settling changes nothing.
C6_TimeoutIsFailure ==
    /\ [](\A i \in 1..Len(pending) : now <= pending[i])
    /\ [][C6_Step]_vars

\* a timeout tripped the breaker and the abandoned operation then resolved:
\* no success was counted and the breaker is still OPEN
C6_Witness ==
    /\ last.kind = "late"
    /\ last.op = OpValue
    /\ cb.state = "OPEN"
    /\ cb.totalSuccesses = 0
    /\ cb.totalFailures = cb.totalCalls
    /\ cb.lastFailureTime = now

\* ------------------------------------------------------------- C7

C7_Step ==
    /\ IF ExecuteStep
       THEN cb'.totalCalls = cb.totalCalls + 1
       ELSE cb'.totalCalls = cb.totalCalls
    /\ IF FinishStep
       THEN \/ /\ cb'.totalSuccesses = cb.totalSuccesses + 1
               /\ cb'.totalFailures = cb.totalFailures
            \/ /\ cb'.totalSuccesses = cb.totalSuccesses
               /\ cb'.totalFailures = cb.totalFailures + 1
       ELSE /\ cb'.totalSuccesses = cb.totalSuccesses
            /\ cb'.totalFailures = cb.totalFailures

C7_Sum ==
    /\ cb.totalCalls = ncalls
    /\ cb.totalSuccesses + cb.totalFailures <= cb.totalCalls
    /\ cb.totalSuccesses + cb.totalFailures + Inflight + rejected = cb.totalCalls
    /\ (Inflight = 0 /\ rejected = 0)
          => cb.totalSuccesses + cb.totalFailures = cb.totalCalls

\* C7: every execute adds one to totalCalls (admitted, rejected or served by
\* the fallback) and nothing else does; every admitted call that finishes adds
\* one to exactly one of totalSuccesses and totalFailures and nothing else
\* does; so totalSuccesses + totalFailures <= totalCalls, the difference being
\* the calls in flight and the calls rejected or served by the fallback.
C7_Counters == [](C7_Sum) /\ [][C7_Step]_vars

\* calls were served by the fallback, one is in flight, and both a success and
\* a failure have been counted
C7_Witness ==
    /\ config.fallback
    /\ rejected > 0
    /\ last.kind = "reject"
    /\ Inflight > 0
    /\ cb.totalSuccesses > 0
    /\ cb.totalFailures > 0
    /\ cb.totalSuccesses + cb.totalFailures < cb.totalCalls

\* ------------------------------------------------------------- C8

C8_Step ==
    /\ cb'.totalCalls >= cb.totalCalls
    /\ cb'.totalFailures >= cb.totalFailures
    /\ cb'.totalSuccesses >= cb.totalSuccesses
    /\ last'.kind = "reset" => Totals(getStats(cb')) = Totals(getStats(cb))

\* C8: no step decreases totalCalls, totalFailures or totalSuccesses, and
\* reset() leaves the three as they were.
C8_TotalsMonotonic == [][C8_Step]_vars

\* reset() ran on an OPEN breaker and the lifetime counters are still non-zero
C8_Witness ==
    /\ last.kind = "reset"
    /\ last.from = "OPEN"
    /\ cb.totalCalls > 0
    /\ cb.totalFailures > 0
    /\ cb.totalSuccesses > 0

\* ------------------------------------------------------------- C9

C9_AfterReset ==
    last.kind = "reset"
        => /\ cb.state = "CLOSED"
           /\ cb.failures = 0
           /\ cb.successes = 0
           /\ cb.lastFailureTime = 0
           /\ getStats(cb).lastFailure = 0
           /\ isHealthy(cb)

C9_NextAdmitted ==
    (last.kind = "reset" /\ ExecuteStep)
        => last'.kind = "admit" /\ last'.fn = 1 /\ Inflight' = Inflight + 1

\* C9: right after reset(), from any state and whatever is in flight, the
\* breaker is CLOSED with failures = 0, successes = 0 and no lastFailure, it
\* is healthy, and an execute issued then is admitted.
C9_ResetCloses == [](C9_AfterReset) /\ [][C9_NextAdmitted]_vars

\* reset() ran on a HALF_OPEN breaker with a call in flight and failures
\* counted
C9_Witness ==
    /\ last.kind = "reset"
    /\ last.from = "HALF_OPEN"
    /\ Inflight > 0
    /\ cb.totalFailures >= config.failureThreshold
    /\ cb.state = "CLOSED"

\* ------------------------------------------------------------- C10

C10_Step ==
    (cb.state = "OPEN" /\ ~ResetTimeoutElapsed /\ ExecuteStep)
        => /\ last'.kind = "reject"
           /\ last'.fn = 0
           /\ Inflight' = Inflight
           /\ IF config.fallback
              THEN /\ last'.fb = 1
                   /\ last'.fbout \in FallbackResults
                   /\ last'.out = last'.fbout
              ELSE /\ last'.fb = 0
                   /\ last'.out = Threw(CircuitOpenError)

\* C10: an execute issued while OPEN before resetTimeout has elapsed does not
\* invoke the operation; with a fallback configured it invokes the fallback
\* exactly once and hands its result to the caller, without one it throws the
\* circuit-open error.
C10_FallbackWhenOpen == [][C10_Step]_vars

\* the fallback served a call on an OPEN breaker
C10_Witness ==
    /\ config.fallback
    /\ last.kind = "reject"
    /\ last.from = "OPEN"
    /\ last.fb = 1
    /\ last.fn = 0
    /\ last.out = Returned(FallbackValue)

\* ------------------------------------------------------------- C11

\* the operation is invoked by the entry step of an admitted call, once, and by
\* no other step: not by the continuation of a call that failed or timed out,
\* not by the settling of an abandoned operation, not by reset
C11_Step ==
    /\ ExecuteStep =>
          /\ last'.fn <= 1
          /\ last'.fn = 1 <=> Inflight' = Inflight + 1
          /\ last'.fn = 0 <=> last'.kind = "reject"
    /\ ~ExecuteStep => (last' = last \/ last'.fn = 0)
    /\ FailedStep => last'.fn = 0 /\ ncalls' = ncalls

\* C11: in every breaker state an execute call invokes its operation at most
\* once; the breaker never retries, a failed or timed-out operation is not
\* invoked again.
C11_AtMostOneInvocation == [][C11_Step]_vars

\* a probe failed in HALF_OPEN and was not invoked again
C11_Witness ==
    /\ last.kind \in {"failure", "timeout"}
    /\ last.from = "HALF_OPEN"
    /\ last.fn = 0
    /\ Inflight = 0
    /\ abandoned = 0

\* ------------------------------------------------------------- C12

\* the probe is in flight on a HALF_OPEN breaker
ProbeInFlight == probeAt > 0 /\ cb.state = "HALF_OPEN"

C12_Step ==
    (ProbeInFlight /\ ExecuteStep) => (last'.fn = 0 /\ Inflight' = Inflight)

\* C12: once resetTimeout has elapsed on an OPEN breaker a single call is let
\* through as the probe; while that probe is in flight no other execute call
\* has its operation invoked.
C12_SingleProbe == [][C12_Step]_vars

\* ------------------------------------------------------------- C13

Transition(from, to) == cb.state = from /\ cb'.state = to

\* one of the four transitions of the state machine is taken by a call
CallTransition ==
    /\ last'.kind \in {"admit", "success", "failure", "timeout"}
    /\ \/ Transition("CLOSED", "OPEN")
       \/ Transition("OPEN", "HALF_OPEN")
       \/ Transition("HALF_OPEN", "CLOSED")
       \/ Transition("HALF_OPEN", "OPEN")

C13_OriginalStep ==
    CallTransition => (getStats(cb').failures = 0 /\ getStats(cb').successes = 0)

\* C13 as stated: both consecutive counters are 0 immediately after each of
\* the four transitions.
C13_BothCountersZero == [][C13_OriginalStep]_vars

C13_Step ==
    /\ CallTransition => getStats(cb').successes = 0
    /\ (CallTransition /\ Transition("HALF_OPEN", "CLOSED")) =>
          getStats(cb').failures = 0
    /\ (CallTransition /\ Transition("CLOSED", "OPEN")) =>
          /\ getStats(cb').failures = getStats(cb).failures + 1
          /\ getStats(cb').failures >= config.failureThreshold
    /\ (CallTransition /\ Transition("HALF_OPEN", "OPEN")) =>
          getStats(cb').failures = getStats(cb).failures + 1
    /\ (CallTransition /\ Transition("OPEN", "HALF_OPEN")) =>
          getStats(cb').failures = getStats(cb).failures

\* C13 (amended): immediately after each of the four transitions the
\* consecutive-success counter is 0; the consecutive-failure counter is 0 only
\* after HALF_OPEN -> CLOSED: the failure that opens the breaker leaves it at
\* its incremented value (at least failureThreshold from CLOSED) and
\* OPEN -> HALF_OPEN leaves it unchanged.
C13_CountersAfterTransition == [][C13_Step]_vars

\* the breaker has just opened from CLOSED and still counts the failures
C13_Witness ==
    /\ last.kind \in {"failure", "timeout"}
    /\ last.from = "CLOSED"
    /\ cb.state = "OPEN"
    /\ cb.successes = 0
    /\ cb.failures = config.failureThreshold
    /\ config.failureThreshold >= 2

\* the state changes the state diagram has
StateEdges ==
    {<<"CLOSED", "OPEN">>, <<"OPEN", "HALF_OPEN">>, <<"HALF_OPEN", "CLOSED">>,
     <<"HALF_OPEN", "OPEN">>}

\* reset() is called in this step
ResetStep == last'.kind = "reset" /\ last'.from = cb.state /\ cb' = reset(cb)

\* C34: the breaker's state changes only along CLOSED -> OPEN,
\* OPEN -> HALF_OPEN, HALF_OPEN -> CLOSED and HALF_OPEN -> OPEN, or by reset()
\* to CLOSED; never OPEN -> CLOSED or CLOSED -> HALF_OPEN without reset(),
\* whatever the interleaving of admissions and completions.
C34_Step ==
    cb'.state # cb.state =>
        \/ <<cb.state, cb'.state>> \in StateEdges
        \/ ResetStep /\ cb'.state = "CLOSED"

C34_StateEdges == [][C34_Step]_vars

\* a success arrived while the breaker was OPEN (a call admitted before it
\* opened): the breaker stayed OPEN
C34_Witness ==
    /\ last.kind = "success"
    /\ last.from = "OPEN"
    /\ cb.state = "OPEN"
    /\ cb.totalFailures >= 1

\* C35: whenever the breaker is CLOSED its consecutive-failure count is
\* strictly below failureThreshold (failureThreshold >= 1), whatever the
\* interleaving of concurrent calls and reset().
C35_ClosedBelowThreshold ==
    config.failureThreshold >= 1 =>
        (cb.state = "CLOSED" => cb.failures < config.failureThreshold)

\* the breaker closed again after having been open, and has counted
\* failures since, one short of the threshold, with a call in flight
C35_Witness ==
    /\ cb.state = "CLOSED"
    /\ cb.failures = config.failureThreshold - 1
    /\ cb.failures >= 1
    /\ cb.totalFailures > cb.failures
    /\ cb.totalSuccesses >= 1
    /\ Inflight > 0

\* C36: the consecutive-success count is non-zero only while the breaker is
\* HALF_OPEN and is always strictly below successThreshold
\* (successThreshold >= 1), whatever the interleaving of concurrent calls and
\* reset().
C36_SuccessesOnlyHalfOpen ==
    /\ cb.successes # 0 => cb.state = "HALF_OPEN"
    /\ config.successThreshold >= 1 => cb.successes < config.successThreshold

\* a probe succeeded and the breaker awaits one more, with a call in flight
C36_Witness ==
    /\ cb.state = "HALF_OPEN"
    /\ cb.successes = 1
    /\ config.successThreshold = 2
    /\ Inflight > 0

\* a call admitted before the probe of the present HALF_OPEN period (while
\* the breaker was CLOSED, or in an earlier HALF_OPEN period) finishes in this
\* step: it leaves the pending calls from a place before the probe's
StaleFinishStep ==
    /\ FinishStep
    /\ cb.state = "HALF_OPEN"
    /\ probeAt >= 2
    /\ probeAt' = probeAt - 1

\* C38: the outcome of a call is applied to the breaker state it was admitted
\* in: a call admitted while CLOSED, or in an earlier HALF_OPEN period, that
\* completes while the breaker is HALF_OPEN neither adds to the success
\* streak nor re-opens the breaker.
C38_Step ==
    StaleFinishStep =>
        /\ cb'.state = "HALF_OPEN"
        /\ cb'.successes = cb.successes

C38_StaleOutcomeIgnored == [][C38_Step]_vars

\* =========================================================================
\* Part 2: withRetry (src/src/utils/index.ts)
\*
\* One invocation of withRetry(fn, config).  The function runs to its first
\* await (the call of fn for attempt 0); each later step is the continuation
\* after an await: fn settled, or the sleep ended.  rt holds its locals:
\*   pc         "ready" (not yet called), "calling" (awaiting fn),
\*              "sleeping" (awaiting sleep(delay)), "done"
\*   policy     the merged configuration {...DEFAULT_RETRY_CONFIG, ...config}
\*   attempt, delay, lastError   the locals of that name
\*   calls      how many times fn has been invoked
\*   errs       the errors fn rejected with, attempt by attempt
\*   sleeps     the arguments of the sleep calls made, in order
\*   out        what withRetry returned or threw
\* =========================================================================

\* ------------------------------------------------------------- bounds
MaxRetries == 2             \* maxRetries ranges over 0..this
MaxDelay == 3               \* initialDelay and maxDelay range over 0..this
MaxMultiplier == 2          \* backoffMultiplier ranges over 1..this

\* errors fn may reject with and values it may resolve with
RetryErrors == {"ECONNREFUSED", "HTTP 400"}
RetryValues == {"result"}
NoError == "none"

\* isRetryable is absent, or a predicate given by the set of errors it returns
\* true for
NoPredicate == [supplied |-> FALSE, accepts |-> {}]
Predicates == {[supplied |-> TRUE, accepts |-> a] : a \in SUBSET RetryErrors}

RetryPolicies ==
    [maxRetries : 0..MaxRetries, initialDelay : 0..MaxDelay, maxDelay : 0..MaxDelay,
     backoffMultiplier : 1..MaxMultiplier,
     isRetryable : {NoPredicate} \cup Predicates]

\* Math.min
min(a, b) == IF a <= b THEN a ELSE b

\* the backoff step without the cap
nextDelay_uncapped(delay, policy) == delay * policy.backoffMultiplier

\* delay = Math.min(delay * backoffMultiplier, maxDelay)
nextDelay(delay, policy) == min(delay * policy.backoffMultiplier, policy.maxDelay)

\* the catch block keeping the first error
recordError_first(lastError, error) == IF lastError = NoError THEN error ELSE lastError

\* lastError = error
recordError(lastError, error) == error

\* the catch block without the isRetryable test
shouldBreak_ignorePredicate(attempt, error, policy) == attempt >= policy.maxRetries

\* the two break conditions of the catch block
shouldBreak(attempt, error, policy) ==
    \/ attempt >= policy.maxRetries
    \/ policy.isRetryable.supplied /\ error \notin policy.isRetryable.accepts

\* the breaker of part 1 is not involved
breakerVars == <<cb, config, now, ncalls, rejected, pending, abandoned, last,
                 failStreak, succStreak, probeAt>>

BreakerOff ==
    /\ cb = NewBreaker
    /\ config = [name |-> "off"]
    /\ now = 1
    /\ ncalls = 0
    /\ rejected = 0
    /\ pending = <<>>
    /\ abandoned = 0
    /\ last = NoEvent
    /\ failStreak = 0
    /\ succStreak = NoStreak
    /\ probeAt = 0

RetryInit ==
    /\ BreakerOff
    /\ gw = NoGateway
    /\ \E policy \in RetryPolicies :
         rt = [pc |-> "ready", policy |-> policy, attempt |-> 0,
               delay |-> policy.initialDelay, lastError |-> NoError, calls |-> 0,
               errs |-> <<>>, sleeps |-> <<>>, out |-> NoOutcome]

\* withRetry is called: the loop is entered when 0 <= maxRetries and fn is
\* invoked for attempt 0
WithRetryCall ==
    /\ rt.pc = "ready"
    /\ rt' = IF rt.attempt <= rt.policy.maxRetries
             THEN [rt EXCEPT !.pc = "calling", !.calls = @ + 1]
             ELSE [rt EXCEPT !.pc = "done", !.out = Threw(rt.lastError)]
    /\ UNCHANGED <<breakerVars, gw>>

\* fn resolves with v: return await fn()
FnResolve(v) ==
    /\ rt.pc = "calling"
    /\ rt' = [rt EXCEPT !.pc = "done", !.out = Returned(v)]
    /\ UNCHANGED <<breakerVars, gw>>

\* fn rejects with error: the catch block, up to the break and the final
\* throw, or up to the await of sleep(delay)
FnReject(error) ==
    /\ rt.pc = "calling"
    /\ LET lastError == recordError(rt.lastError, error)
           r1 == [rt EXCEPT !.lastError = lastError, !.errs = Append(@, error)] IN
       rt' = IF shouldBreak(rt.attempt, error, rt.policy)
             THEN [r1 EXCEPT !.pc = "done", !.out = Threw(lastError)]
             ELSE [r1 EXCEPT !.pc = "sleeping", !.sleeps = Append(@, rt.delay)]
    /\ UNCHANGED <<breakerVars, gw>>

\* the sleep ends: the delay is raised, attempt++ and, the loop condition
\* holding, fn is invoked again
SleepEnd ==
    /\ rt.pc = "sleeping"
    /\ LET r1 == [rt EXCEPT !.delay = nextDelay(rt.delay, rt.policy),
                            !.attempt = @ + 1] IN
       rt' = IF r1.attempt <= r1.policy.maxRetries
             THEN [r1 EXCEPT !.pc = "calling", !.calls = @ + 1]
             ELSE [r1 EXCEPT !.pc = "done", !.out = Threw(r1.lastError)]
    /\ UNCHANGED <<breakerVars, gw>>

RetryNext ==
    \/ WithRetryCall
    \/ \E v \in RetryValues : FnResolve(v)
    \/ \E error \in RetryErrors : FnReject(error)
    \/ SleepEnd

RetrySpec == RetryInit /\ [][RetryNext]_vars

\* withRetry has settled
RetryDone == rt.pc = "done"

\* every error fn rejected with is one the policy retries
AllRetryable ==
    rt.policy.isRetryable.supplied
        => \A j \in 1..Len(rt.errs) : rt.errs[j] \in rt.policy.isRetryable.accepts

\* ------------------------------------------------------------- C14

\* C14: when every failure is retryable, withRetry that returns has invoked
\* the operation once more than it failed (k failures, k <= maxRetries, then the
\* success it returns); withRetry that throws has invoked it exactly
\* maxRetries + 1 times and throws the error of the last attempt.
C14_AttemptsAndLastError ==
    /\ rt.calls <= rt.policy.maxRetries + 1
    /\ (RetryDone /\ AllRetryable) =>
          IF rt.out.kind = "returned"
          THEN /\ Len(rt.errs) <= rt.policy.maxRetries
               /\ rt.calls = Len(rt.errs) + 1
               /\ rt.out.val \in RetryValues
          ELSE /\ rt.calls = rt.policy.maxRetries + 1
               /\ Len(rt.errs) = rt.policy.maxRetries + 1
               /\ rt.out = Threw(rt.errs[rt.policy.maxRetries + 1])

\* three attempts failed with retryable errors, the last unlike the first
C14_Witness ==
    /\ RetryDone
    /\ AllRetryable
    /\ rt.policy.maxRetries = 2
    /\ rt.calls = 3
    /\ Len(rt.errs) = 3
    /\ rt.errs[1] # rt.errs[3]
    /\ rt.out = Threw(rt.errs[3])

\* ------------------------------------------------------------- C15

\* C15: once a supplied isRetryable returns false for the error of attempt i
\* (the j-th error, j = i + 1), withRetry is done: no sleep follows, the
\* operation has been invoked exactly i + 1 times and that error is thrown.
C15_NonRetryableStops ==
    \A j \in 1..Len(rt.errs) :
        (rt.policy.isRetryable.supplied /\ rt.errs[j] \notin rt.policy.isRetryable.accepts)
            => /\ RetryDone
               /\ j = Len(rt.errs)
               /\ rt.calls = j
               /\ Len(rt.sleeps) = j - 1
               /\ rt.out = Threw(rt.errs[j])

\* the second attempt failed with a non-retryable error while retries remained
C15_Witness ==
    /\ RetryDone
    /\ rt.policy.isRetryable.supplied
    /\ rt.policy.maxRetries = 2
    /\ rt.calls = 2
    /\ Len(rt.errs) = 2
    /\ rt.errs[1] \in rt.policy.isRetryable.accepts
    /\ rt.errs[2] \notin rt.policy.isRetryable.accepts
    /\ rt.out = Threw(rt.errs[2])

\* ------------------------------------------------------------- C16

C17_SleepsBounded ==
    \A j \in 1..Len(rt.sleeps) : rt.sleeps[j] <= rt.policy.maxDelay

\* =========================================================================
\* Part 3: LiteLLMAdapter.chatSync and its response cache (src/unnamed/part_006)
\*
\* One adapter instance with its own CircuitBreaker (cb, config) and any
\* number of concurrent callers.  chatSync runs to its first await, the fetch
\* of the first model; each later step is a continuation: the current model
\* of a run of executeWithFallbacks settled, or the breaker's timer fired.
\* Date.now() is in milliseconds.  gw holds:
\*   cfg       the LiteLLMConfig (models: how many models the chain has)
\*   cache     the Map of CacheEntry, in insertion order
\*   runs      the runs of executeWithFallbacks awaiting a model, each with
\*             its cacheKey, the position of the model it awaits, its
\*             lastError, and how it is raced by the breaker: "none" (breaker
\*             disabled), "pending" (timer armed, due at deadline), or "lost"
\*             (the timer fired first and chatSync has thrown)
\*   registry  the module-level circuitBreakers of circuit-breaker.ts (its
\*             entry ai; no code executes through it)
\*   misses    chatSync invocations so far that missed the cache
\*   failedInARow  how many chatSync invocations in a row ended with every
\*             provider of the chain having failed (the caller received the
\*             last provider's error); a call that returned a response or
\*             ended by the breaker's timeout starts the count again, a
\*             rejected call or a cache hit leaves it
\*   ticks     clock advances so far
\*   last      what the last step other than a clock tick did, see GwEvent
\* =========================================================================

\* ------------------------------------------------------------- bounds
MaxChats == 4               \* chatSync invocations missing the cache in one behaviour
MaxRuns == 1                \* runs of executeWithFallbacks at once
MaxTicks == 2               \* clock advances in one behaviour

\* by how many milliseconds the n-th clock advance moves Date.now(): a second,
\* then millisecond by millisecond
TickStep(n) == IF n = 1 THEN 1000 ELSE 1

\* how many models the chain has (primaryModel and the fallbackModels), and
\* the cacheTTLSeconds, of the adapters constructed
ChainLengths == {1, 2}
TTLSeconds == {1}

\* the message lists chatSync is called with
MessageLists ==
    {<<[role |-> "user", content |-> "hi"]>>, <<[role |-> "user", content |-> "bye"]>>}

\* what a provider may answer: callOllama returns data.message?.content || ''
Responses == {"", "Hello"}

\* the error the model at each position of the chain fails with
ModelErrors == <<"primary model failed", "fallback model failed">>

GwConfigs ==
    [cacheEnabled : BOOLEAN, cacheTTLSeconds : TTLSeconds,
     circuitBreakerEnabled : BOOLEAN, models : ChainLengths, timeout : {1000}]

\* the constructor's breaker opening only at the fourth failure
AdapterBreakerConfig_lenient(cfg) ==
    [failureThreshold |-> 4, resetTimeout |-> 60000, successThreshold |-> 2,
     timeout |-> cfg.timeout, fallback |-> FALSE]

\* the breaker the constructor creates
AdapterBreakerConfig(cfg) ==
    [failureThreshold |-> 3, resetTimeout |-> 60000, successThreshold |-> 2,
     timeout |-> cfg.timeout, fallback |-> FALSE]

\* Message.timestamp?: Date left out
Undefined == "undefined"

\* JSON.stringify of one message: the fields it carries with their values;
\* an undefined field is skipped, a Date is written as its ISO string
stringify(message) ==
    IF "timestamp" \in DOMAIN message /\ message.timestamp # Undefined
    THEN <<"role", message.role, "content", message.content, "timestamp", message.timestamp>>
    ELSE <<"role", message.role, "content", message.content>>

\* JSON.stringify(messages): the fields of every message, in order
getCacheKey(messages) == [i \in 1..Len(messages) |-> stringify(messages[i])]

Keys == {getCacheKey(m) : m \in MessageLists}

\* Map.get: the position of the entry of key, 0 if there is none
cacheIndex(cache, key) ==
    IF \E i \in 1..Len(cache) : cache[i].key = key
    THEN CHOOSE i \in 1..Len(cache) : cache[i].key = key
    ELSE 0

\* Map.delete of the entry at position i
cacheDelete(cache, i) == [j \in 1..(Len(cache) - 1) |-> IF j < i THEN cache[j] ELSE cache[j + 1]]

\* a string | null
Null == [null |-> TRUE, response |-> ""]
NotNull(response) == [null |-> FALSE, response |-> response]

\* if (cached): null and the empty string are falsy
truthy(cached) == ~cached.null /\ cached.response # ""

\* getFromCache: the cache it leaves and the value it returns;
\* age = (Date.now() - entry.timestamp) / 1000 > cacheTTLSeconds
getFromCache(cfg, cache, key, t) ==
    LET i == cacheIndex(cache, key) IN
    IF ~cfg.cacheEnabled THEN [cache |-> cache, value |-> Null]
    ELSE IF i = 0 THEN [cache |-> cache, value |-> Null]
    ELSE IF t - cache[i].timestamp > 1000 * cfg.cacheTTLSeconds
         THEN [cache |-> cacheDelete(cache, i), value |-> Null]
         ELSE [cache |-> cache, value |-> NotNull(cache[i].response)]

\* if (this.cache.size > 1000)
CacheLimit == 1000

\* setCache evicting the entry inserted last before this one
setCache_evictNewest(cache, key, response, t) ==
    LET i == cacheIndex(cache, key)
        entry == [key |-> key, response |-> response, timestamp |-> t]
        c1 == IF i = 0 THEN Append(cache, entry) ELSE [cache EXCEPT ![i] = entry] IN
    IF Len(c1) > CacheLimit THEN cacheDelete(c1, Len(c1) - 1) ELSE c1

\* setCache: Map.set keeps the position of a key already present; above 1000
\* entries the first key in the Map's order goes
setCache(cache, key, response, t) ==
    LET i == cacheIndex(cache, key)
        entry == [key |-> key, response |-> response, timestamp |-> t]
        c1 == IF i = 0 THEN Append(cache, entry) ELSE [cache EXCEPT ![i] = entry] IN
    IF Len(c1) > CacheLimit THEN Tail(c1) ELSE c1

\* clearCache dropping all but the newest entry
clearCache_keepNewest(cache) == IF cache = <<>> THEN <<>> ELSE <<cache[Len(cache)]>>

\* clearCache: Map.clear
clearCache(cache) == <<>>

\* What a step of part 3 did:
\*   kind        "hit", "reject", "call" (chatSync went to the first model),
\*               "next" (a run went on to the next model), "return", "throw",
\*               "timeout" (what chatSync handed to its caller), "late" (a run
\*               whose chatSync had timed out ended), "clear"
\*   key         the cacheKey of the chatSync or run concerned
\*   at          Date.now() at the step, for a "return" (0 otherwise)
\*   cleared     the keys whose entries a clearCache removed
\*   afterClear  the step before it was a clearCache that removed the entry
\*               of this key
\*   calls       how many provider calls the step issued
\*   called      the position in the chain of the model the step called (0 if
\*               it called none)
\*   settled     the position in the chain of the model whose answer or
\*               failure the step handled (0 if none)
\*   answer      the response of that model, Null if it failed
\*   ran         what executeWithFallbacks returned or threw in this step
\*   out         what chatSync handed to its caller in this step
GwNoEvent ==
    [kind |-> "init", key |-> <<>>, at |-> 0, cleared |-> {}, afterClear |-> FALSE,
     calls |-> 0, called |-> 0, settled |-> 0, answer |-> Null, ran |-> NoOutcome,
     out |-> NoOutcome]

GwEvent(kind, key) ==
    [GwNoEvent EXCEPT !.kind = kind, !.key = key,
                      !.afterClear = (gw.last.kind = "clear" /\ key \in gw.last.cleared)]

\* the variables a step of part 3 leaves alone
gwOthers == <<config, ncalls, rejected, pending, abandoned, last, failStreak,
              succStreak, probeAt, rt>>

\* export const circuitBreakers = { ai: new CircuitBreaker({...}), ... }
circuitBreakers == [ai |-> NewBreaker]

\* createCircuitBreaker(config): a new CircuitBreaker, not entered in the
\* registry
createCircuitBreaker == NewBreaker

\* getAllCircuitBreakerStats(): getStats() of the registry's breakers
getAllCircuitBreakerStats(registry) == [ai |-> getStats(registry.ai)]

GwInit ==
    /\ \E cfg \in GwConfigs :
         /\ gw = [cfg |-> cfg, cache |-> <<>>, runs |-> <<>>, misses |-> 0, ticks |-> 0,
                  registry |-> circuitBreakers, failedInARow |-> 0, last |-> GwNoEvent]
         /\ config = AdapterBreakerConfig(cfg)
    /\ cb = createCircuitBreaker
    /\ now = 1
    /\ ncalls = 0
    /\ rejected = 0
    /\ pending = <<>>
    /\ abandoned = 0
    /\ last = NoEvent
    /\ failStreak = 0
    /\ succStreak = NoStreak
    /\ probeAt = 0
    /\ rt = NoRetry

\* chatSync answering from the cache only after the breaker's gate
ChatSyncHit_throughBreaker(messages) ==
    /\ LET key == getCacheKey(messages)
           cached == getFromCache(gw.cfg, gw.cache, key, now)
           r == executeEntry(cb, config, now) IN
       /\ truthy(cached.value)
       /\ r.admit
       /\ cb' = r.b
       /\ gw' = [gw EXCEPT !.cache = cached.cache,
                           !.last = [GwEvent("hit", key) EXCEPT
                                        !.out = Returned(cached.value.response)]]
    /\ UNCHANGED <<now, gwOthers>>

\* chatSync(messages) answered from the cache
ChatSyncHit(messages) ==
    /\ LET key == getCacheKey(messages)
           cached == getFromCache(gw.cfg, gw.cache, key, now) IN
       /\ truthy(cached.value)
       /\ gw' = [gw EXCEPT !.cache = cached.cache,
                           !.last = [GwEvent("hit", key) EXCEPT
                                        !.out = Returned(cached.value.response)]]
    /\ UNCHANGED <<cb, now, gwOthers>>

\* chatSync(messages) missing the cache and rejected by the breaker
ChatSyncReject(messages) ==
    /\ gw.misses < MaxChats
    /\ gw.cfg.circuitBreakerEnabled
    /\ LET key == getCacheKey(messages)
           cached == getFromCache(gw.cfg, gw.cache, key, now)
           r == executeEntry(cb, config, now) IN
       /\ ~truthy(cached.value)
       /\ ~r.admit
       /\ cb' = r.b
       /\ \E h \in handleOpenCircuit(config) :
            gw' = [gw EXCEPT !.misses = @ + 1, !.cache = cached.cache,
                             !.last = [GwEvent("reject", key) EXCEPT !.out = h.out]]
    /\ UNCHANGED <<now, gwOthers>>

\* chatSync(messages) missing the cache and starting executeWithFallbacks,
\* through the breaker if enabled: the first model is called
ChatSyncCall(messages) ==
    /\ gw.misses < MaxChats
    /\ Len(gw.runs) < MaxRuns
    /\ LET key == getCacheKey(messages)
           cached == getFromCache(gw.cfg, gw.cache, key, now)
           r == executeEntry(cb, config, now)
           w == executeWithTimeout(config, now)
           run == IF gw.cfg.circuitBreakerEnabled
                  THEN [key |-> key, model |-> 1, lastError |-> NoError,
                        race |-> "pending", deadline |-> w.deadline]
                  ELSE [key |-> key, model |-> 1, lastError |-> NoError,
                        race |-> "none", deadline |-> 0] IN
       /\ ~truthy(cached.value)
       /\ gw.cfg.circuitBreakerEnabled => r.admit
       /\ cb' = IF gw.cfg.circuitBreakerEnabled THEN r.b ELSE cb
       /\ gw' = [gw EXCEPT !.misses = @ + 1, !.cache = cached.cache,
                           !.runs = Append(@, run),
                           !.last = [GwEvent("call", key) EXCEPT !.calls = 1, !.called = 1]]
    /\ UNCHANGED <<now, gwOthers>>

\* executeWithFallbacks going on to the next model after an answer
ModelResolve_keepsGoing(i, response) ==
    /\ i <= Len(gw.runs)
    /\ gw.runs[i].model < gw.cfg.models
    /\ gw' = [gw EXCEPT !.runs[i].model = @ + 1,
                        !.cache = IF gw.cfg.cacheEnabled
                                  THEN setCache(gw.cache, gw.runs[i].key, response, now)
                                  ELSE gw.cache,
                        !.last = [GwEvent("next", gw.runs[i].key) EXCEPT
                                     !.calls = 1, !.called = gw.runs[i].model + 1,
                                     !.settled = gw.runs[i].model,
                                     !.answer = NotNull(response)]]
    /\ UNCHANGED <<cb, now, gwOthers>>

\* the model awaited by the i-th run answers: the response is cached and
\* returned; the breaker, if still racing the run, records a success
ModelResolve(i, response) ==
    /\ i <= Len(gw.runs)
    /\ LET run == gw.runs[i]
           cache == IF gw.cfg.cacheEnabled
                    THEN setCache(gw.cache, run.key, response, now) ELSE gw.cache
           g1 == [gw EXCEPT !.cache = cache, !.runs = Without(@, i)]
           e == [GwEvent(IF run.race = "lost" THEN "late" ELSE "return", run.key) EXCEPT
                    !.settled = run.model, !.answer = NotNull(response),
                    !.ran = Returned(response)] IN
       IF run.race = "lost"
       THEN /\ gw' = [g1 EXCEPT !.last = e]
            /\ cb' = cb
       ELSE /\ gw' = [g1 EXCEPT !.failedInARow = 0,
                                !.last = [e EXCEPT !.at = now, !.out = executeReturn(response)]]
            /\ cb' = IF run.race = "pending" THEN onSuccess(cb, config) ELSE cb
    /\ UNCHANGED <<now, gwOthers>>

\* a failing model recorded by the breaker although another model follows
ModelRejectNext_recordsFailure(i) ==
    /\ i <= Len(gw.runs)
    /\ gw.runs[i].model < gw.cfg.models
    /\ gw' = [gw EXCEPT !.runs[i].lastError = ModelErrors[gw.runs[i].model],
                        !.runs[i].model = @ + 1,
                        !.last = [GwEvent("next", gw.runs[i].key) EXCEPT
                                     !.calls = 1, !.called = gw.runs[i].model + 1,
                                     !.settled = gw.runs[i].model]]
    /\ cb' = IF gw.runs[i].race = "pending" THEN onFailure(cb, config, now) ELSE cb
    /\ UNCHANGED <<now, gwOthers>>

\* the model awaited by the i-th run fails and another follows in the chain:
\* it is called
ModelRejectNext(i) ==
    /\ i <= Len(gw.runs)
    /\ gw.runs[i].model < gw.cfg.models
    /\ gw' = [gw EXCEPT !.runs[i].lastError = ModelErrors[gw.runs[i].model],
                        !.runs[i].model = @ + 1,
                        !.last = [GwEvent("next", gw.runs[i].key) EXCEPT
                                     !.calls = 1, !.called = gw.runs[i].model + 1,
                                     !.settled = gw.runs[i].model]]
    /\ UNCHANGED <<cb, now, gwOthers>>

\* the last model of the chain fails: executeWithFallbacks throws lastError;
\* the breaker, if still racing the run, records a failure
ModelRejectLast(i) ==
    /\ i <= Len(gw.runs)
    /\ gw.runs[i].model >= gw.cfg.models
    /\ LET run == gw.runs[i]
           lastError == ModelErrors[run.model]
           g1 == [gw EXCEPT !.runs = Without(@, i)]
           e == [GwEvent(IF run.race = "lost" THEN "late" ELSE "throw", run.key) EXCEPT
                    !.settled = run.model, !.ran = Threw(lastError)] IN
       IF run.race = "lost"
       THEN /\ gw' = [g1 EXCEPT !.last = e]
            /\ cb' = cb
       ELSE /\ gw' = [g1 EXCEPT !.failedInARow = @ + 1,
                                !.last = [e EXCEPT !.out = executeRethrow(lastError)]]
            /\ cb' = IF run.race = "pending" THEN onFailure(cb, config, now) ELSE cb
    /\ UNCHANGED <<now, gwOthers>>

\* the breaker's timer fires before the i-th run ends: a failure is recorded
\* and chatSync throws the timeout error; the run goes on
BreakerTimeout(i) ==
    /\ i <= Len(gw.runs)
    /\ gw.runs[i].race = "pending"
    /\ now >= gw.runs[i].deadline
    /\ cb' = onFailure(cb, config, now)
    /\ gw' = [gw EXCEPT !.runs[i].race = "lost",
                        !.failedInARow = 0,
                        !.last = [GwEvent("timeout", gw.runs[i].key) EXCEPT
                                     !.out = executeRethrow(TimeoutError)]]
    /\ UNCHANGED <<now, gwOthers>>

\* clearCache()
ClearCache ==
    /\ gw' = [gw EXCEPT !.cache = clearCache(gw.cache),
                        !.last = [GwEvent("clear", <<>>) EXCEPT
                                     !.cleared = {gw.cache[i].key : i \in 1..Len(gw.cache)}]]
    /\ UNCHANGED <<cb, now, gwOthers>>

\* the clock advances; a due timer fires before time moves on
GwTick ==
    /\ gw.ticks < MaxTicks
    /\ LET d == TickStep(gw.ticks + 1) IN
       /\ \A i \in 1..Len(gw.runs) :
             gw.runs[i].race = "pending" => now + d <= gw.runs[i].deadline
       /\ now' = now + d
    /\ gw' = [gw EXCEPT !.ticks = @ + 1]
    /\ UNCHANGED <<cb, gwOthers>>

GwNext ==
    \/ \E messages \in MessageLists : ChatSyncHit(messages)
    \/ \E messages \in MessageLists : ChatSyncReject(messages)
    \/ \E messages \in MessageLists : ChatSyncCall(messages)
    \/ \E i \in 1..MaxRuns, response \in Responses : ModelResolve(i, response)
    \/ \E i \in 1..MaxRuns : ModelRejectNext(i)
    \/ \E i \in 1..MaxRuns : ModelRejectLast(i)
    \/ \E i \in 1..MaxRuns : BreakerTimeout(i)
    \/ ClearCache
    \/ GwTick

GwSpec == GwInit /\ [][GwNext]_vars

\* a chatSync invocation is issued in this step, for the key gw'.last.key (a
\* hit that repeats the hit before it changes nothing and is no step at all)
ChatSyncStep ==
    \/ gw'.misses = gw.misses + 1
    \/ gw'.last.kind = "hit" /\ gw'.last # gw.last

\* ------------------------------------------------------------- C18

C18_Step ==
    (/\ ChatSyncStep
     /\ gw.cfg.cacheEnabled
     /\ gw.last.kind = "return"
     /\ gw'.last.key = gw.last.key
     /\ now - gw.last.at <= 1000 * gw.cfg.cacheTTLSeconds)
        => /\ gw'.last.calls = 0
           /\ gw'.runs = gw.runs
           /\ gw'.last.out = gw.last.out

\* C18: with caching enabled, a chatSync issued after a chatSync for the same
\* message list has returned, within the TTL, causes no provider call and
\* returns the response the first call returned, whatever text that is.
C18_SecondCallFromCache == [][C18_Step]_vars

\* ------------------------------------------------------------- C19

\* a chatSync is issued right after a clearCache that removed the entry of its
\* message list
AfterClearStep ==
    /\ ChatSyncStep
    /\ gw.last.kind = "clear"
    /\ gw'.last.key \in gw.last.cleared

C19_OriginalStep ==
    /\ gw'.last.kind = "clear" => gw'.cache = <<>>
    /\ AfterClearStep => gw'.last.calls = 1

\* C19 as stated: after clearCache the cache is empty and the next chatSync
\* for a previously cached message list makes a provider call.
C19_FreshCallAfterClear == [][C19_OriginalStep]_vars

C19_Step ==
    /\ gw'.last.kind = "clear" => gw'.cache = <<>>
    /\ AfterClearStep =>
          /\ gw'.last.kind # "hit"
          /\ \/ /\ gw'.last.kind = "call"
                /\ gw'.last.calls = 1
             \/ /\ gw.cfg.circuitBreakerEnabled
                /\ cb.state = "OPEN"
                /\ ~shouldAttemptReset(cb, config, now)
                /\ gw'.last.kind = "reject"
                /\ gw'.last.calls = 0
                /\ gw'.last.out = Threw(CircuitOpenError)

\* C19 (amended): after clearCache the cache holds no entry, whatever it held
\* before; a chatSync issued next for a message list whose entry was removed
\* misses the cache and makes a fresh provider call, unless the breaker is
\* enabled and OPEN with resetTimeout not elapsed, and then the call is
\* rejected with the circuit-open error without a provider call.
C19_ClearCacheEmpties == [][C19_Step]_vars

\* the chatSync after a clearCache that removed its entry called the provider
C19_Witness ==
    /\ gw.last.kind = "call"
    /\ gw.last.afterClear
    /\ gw.last.calls = 1

\* ------------------------------------------------------------- C20

C20_Step ==
    LET key == gw'.last.key
        i == cacheIndex(gw.cache, key)
        j == cacheIndex(gw'.cache, key) IN
    /\ (ChatSyncStep /\ gw.cfg.cacheEnabled /\ i > 0) =>
          IF now - gw.cache[i].timestamp <= 1000 * gw.cfg.cacheTTLSeconds
          THEN /\ gw'.last.kind = "hit"
               /\ gw'.last.calls = 0
               /\ gw'.last.out = Returned(gw.cache[i].response)
          ELSE /\ gw'.last.kind # "hit"
               /\ j = 0
               /\ gw'.last.calls = 1
    /\ (gw'.last.kind = "return" /\ gw'.last # gw.last /\ gw.cfg.cacheEnabled) =>
          /\ j > 0
          /\ gw'.cache[j].response = gw'.last.out.val
          /\ gw'.cache[j].timestamp = now

\* C20: a cached response is served while now - createdAt <= ttl, also at
\* exactly ttl, and never after: a chatSync issued after the TTL removes the
\* entry and calls the provider again, and the response is stored with a fresh
\* creation time.
C20_ServedWithinTTL == [][C20_Step]_vars

\* ------------------------------------------------------------- C30

\* the first instant from t on at which an OPEN breaker b lets a probe through
\* (MaxTime + 1: not within the clock's range)
NextProbeAt(b, t) ==
    IF \E u \in t..MaxTime : shouldAttemptReset(b, config, u)
    THEN CHOOSE u \in t..MaxTime :
            /\ shouldAttemptReset(b, config, u)
            /\ \A v \in t..(u - 1) : ~shouldAttemptReset(b, config, v)
    ELSE MaxTime + 1

C30_Step ==
    (ExecuteStep /\ last'.kind = "reject") =>
        /\ cb.state = "OPEN"
        /\ getStats(cb') = [getStats(cb) EXCEPT !.totalCalls = @ + 1]
        /\ cb' = [cb EXCEPT !.totalCalls = @ + 1]
        /\ NextProbeAt(cb', now) = NextProbeAt(cb, now)

\* C30: an execute rejected while OPEN, with or without a fallback and also
\* when the fallback throws, changes only totalCalls; state, the consecutive
\* counts, lastFailureTimestamp, totalFailures and totalSuccesses stay, and so
\* does the instant at which the next probe is allowed.
C30_RejectOnlyCounts == [][C30_Step]_vars

\* a call was rejected, its fallback threw, and a probe is still to come
C30_Witness ==
    /\ last.kind = "reject"
    /\ last.fbout = Threw(FallbackError)
    /\ cb.state = "OPEN"
    /\ cb.totalCalls >= 2
    /\ NextProbeAt(cb, now) \in (now + 1)..MaxTime

\* a chatSync is answered from the cache in this step
HitStep == gw'.last.kind = "hit" /\ gw'.last # gw.last

\* C23: a chatSync that hits the cache makes no provider call and leaves the
\* breaker's state and every counter as they were (totalCalls included); the
\* cached response is returned, also when the breaker is OPEN.
C23_Step ==
    HitStep =>
        LET i == cacheIndex(gw.cache, gw'.last.key) IN
        /\ i > 0
        /\ gw'.last.out = Returned(gw.cache[i].response)
        /\ gw'.last.calls = 0
        /\ gw'.runs = gw.runs
        /\ gw'.cache = gw.cache
        /\ cb' = cb
        /\ getStats(cb') = getStats(cb)

RunStep == gw'.last # gw.last \/ gw'.runs # gw.runs

\* the model at position gw'.last.settled answered / failed in this step
ModelAnswered == RunStep /\ gw'.last.settled > 0 /\ gw'.last.answer # Null
ModelFailed == RunStep /\ gw'.last.settled > 0 /\ gw'.last.answer = Null

\* the run whose model settled in this step: the only run of its key awaiting
\* that model
SettledRuns ==
    {i \in 1..Len(gw.runs) : /\ gw.runs[i].key = gw'.last.key
                              /\ gw.runs[i].model = gw'.last.settled}

\* C24: on a cache miss the models are called in chain order, one at a time:
\* the miss calls the primary, and the model at position k + 1 is called in
\* the very step in which the model at position k failed, never otherwise.
\* The first model that answers ends the run: executeWithFallbacks calls no
\* further model, writes the response to the cache when caching is enabled
\* and returns it (chatSync hands it on unless its breaker has timed out).
C24_Step ==
    LET e == gw'.last IN
    /\ RunStep => /\ e.calls = (IF e.called > 0 THEN 1 ELSE 0)
                  /\ e.called > 0 <=> e.kind \in {"call", "next"}
    /\ (RunStep /\ e.kind = "call") =>
          /\ e.called = 1 /\ e.settled = 0
          /\ gw'.misses = gw.misses + 1
          /\ gw'.runs = Append(gw.runs, gw'.runs[Len(gw'.runs)])
          /\ gw'.runs[Len(gw'.runs)].model = 1
    /\ (RunStep /\ e.kind = "next") =>
          /\ ModelFailed
          /\ e.called = e.settled + 1
          /\ e.called <= gw.cfg.models
          /\ \E i \in SettledRuns :
                gw'.runs = [gw.runs EXCEPT ![i].model = e.called,
                                           ![i].lastError = ModelErrors[e.settled]]
    /\ ModelAnswered =>
          /\ e.called = 0
          /\ e.ran = Returned(e.answer.response)
          /\ \E i \in SettledRuns :
                /\ gw'.runs = Without(gw.runs, i)
                /\ gw.runs[i].race # "lost" => e.out = Returned(e.answer.response)
          /\ IF gw.cfg.cacheEnabled
             THEN LET j == cacheIndex(gw'.cache, e.key) IN
                  /\ j > 0
                  /\ gw'.cache[j] = [key |-> e.key, response |-> e.answer.response,
                                     timestamp |-> now]
             ELSE gw'.cache = gw.cache

C24_ChainOrder == [][C24_Step]_vars

\* the fallback answered after the primary failed, and its response was
\* cached and returned
C24_Witness ==
    /\ gw.last.kind = "return"
    /\ gw.last.settled = 2
    /\ gw.last.out = Returned("Hello")
    /\ gw.cfg.cacheEnabled
    /\ cacheIndex(gw.cache, gw.last.key) > 0

\* C25: whenever the primary fails and a later model of the chain answers,
\* chatSync returns that answer to its caller, with the breaker enabled as
\* well as disabled.
C25_Step ==
    (ModelAnswered /\ gw'.last.settled > 1) =>
        gw'.last.out = Returned(gw'.last.answer.response)

C25_FallbackResponseReturned == [][C25_Step]_vars

\* C26: if every model of the chain fails, chatSync raises the error of the
\* last model tried, not one generated by the breaker.
C26_Step ==
    (ModelFailed /\ gw'.last.settled = gw.cfg.models) =>
        gw'.last.out = Threw(ModelErrors[gw.cfg.models])

C26_LastProviderError == [][C26_Step]_vars

\* C29: the registry's statistics for the AI dependency reflect the
\* gateway's breaker-guarded chat calls: a cache-miss chatSync with the
\* breaker enabled increases the entry's totalCalls, and whenever the
\* gateway's breaker is OPEN the entry's state is OPEN.
C29_Step ==
    LET before == getAllCircuitBreakerStats(gw.registry).ai
        after == getAllCircuitBreakerStats(gw'.registry).ai IN
    /\ (gw'.misses = gw.misses + 1 /\ gw.cfg.circuitBreakerEnabled) =>
          after.totalCalls > before.totalCalls
    /\ cb'.state = "OPEN" => after.state = "OPEN"

C29_RegistryReflectsGateway == [][C29_Step]_vars

\* a chatSync that misses the cache is issued in this step
MissStep == gw'.misses = gw.misses + 1

\* C31: with the breaker enabled, after 3 chatSync calls in a row in each of
\* which every provider failed, a further cache-miss chatSync issued less
\* than 60 seconds after the last failure is rejected with the circuit-open
\* error and contacts no provider.
C31_Step ==
    (/\ MissStep
     /\ gw.cfg.circuitBreakerEnabled
     /\ gw.failedInARow >= 3
     /\ now - cb.lastFailureTime < 60000) =>
        /\ gw'.last.kind = "reject"
        /\ gw'.last.out = Threw(CircuitOpenError)
        /\ gw'.last.calls = 0
        /\ gw'.runs = gw.runs

C31_OpenAfterThreeFailedChats == [][C31_Step]_vars

\* the fourth chatSync was rejected after three failed ones
C31_Witness ==
    /\ gw.last.kind = "reject"
    /\ gw.last.out = Threw(CircuitOpenError)
    /\ gw.failedInARow = 3
    /\ gw.misses = 4
    /\ cb.totalFailures = 3

\* the runs the breaker is still racing
RacedRuns == {i \in 1..Len(gw.runs) : gw.runs[i].race = "pending"}

\* C32: the gateway's breaker records exactly one call per cache-miss
\* chatSync, covering the whole chain: totalCalls grows by one at every miss
\* and at no other step, and each call records at most one outcome.  A
\* chatSync that returns a fallback's answer after the primary failed records
\* one success (failures back to 0 in CLOSED) and no failure; a failure is
\* recorded only in a step in which the last model of the chain failed or the
\* breaker's timer fired, and only one.
C32_Step ==
    LET e == gw'.last IN
    /\ ~gw.cfg.circuitBreakerEnabled => cb' = cb
    /\ gw.cfg.circuitBreakerEnabled =>
          /\ cb'.totalCalls = cb.totalCalls + (IF MissStep THEN 1 ELSE 0)
          /\ cb'.totalCalls = gw'.misses
          /\ cb'.totalSuccesses + cb'.totalFailures + Cardinality(RacedRuns)' <= cb'.totalCalls
          /\ (ModelAnswered /\ e.settled > 1 /\ e.kind = "return") =>
                /\ cb'.totalSuccesses = cb.totalSuccesses + 1
                /\ cb'.totalFailures = cb.totalFailures
                /\ cb.state = "CLOSED" => cb'.failures = 0 /\ cb'.state = "CLOSED"
          /\ cb'.totalFailures # cb.totalFailures =>
                /\ cb'.totalFailures = cb.totalFailures + 1
                /\ cb'.totalSuccesses = cb.totalSuccesses
                /\ \/ ModelFailed /\ e.settled = gw.cfg.models /\ e.kind = "throw"
                   \/ RunStep /\ e.kind = "timeout"
          /\ (RunStep /\ e.kind \in {"next", "late", "hit", "clear"}) => cb' = cb

C32_OneCallPerChat == [][C32_Step]_vars

\* two failures were counted, then the primary failed and the fallback's
\* answer was returned: one success, and the failure count is back to 0
C32_Witness ==
    /\ gw.last.kind = "return"
    /\ gw.last.settled = 2
    /\ cb.state = "CLOSED"
    /\ cb.failures = 0
    /\ cb.totalFailures = 2
    /\ cb.totalSuccesses = 1
    /\ cb.totalCalls = 3

\* the entries of a cache
CacheEntries(cache) == {cache[i] : i \in 1..Len(cache)}

\* C33: a chatSync that ends with an error writes nothing to the cache: an
\* entry is written only in a step in which chatSync returns a provider's
\* response to its caller, and it is that response; never after the caller
\* has received an error.
C33_Step ==
    LET written == CacheEntries(gw'.cache) \ CacheEntries(gw.cache) IN
    written # {} =>
        /\ gw'.last.kind = "return"
        /\ \A entry \in written :
              /\ entry.key = gw'.last.key
              /\ gw'.last.out = Returned(entry.response)

C33_CacheWrittenOnlyOnReturn == [][C33_Step]_vars

\* =========================================================================
\* Part 4: the cache of a LiteLLMAdapter near its size limit
\*
\* setCache and the expiry branch of getFromCache applied to a cache that
\* already holds almost CacheLimit entries.  Cache keys are numbered: key k
\* stands for the JSON text of the k-th distinct message list.  gw holds:
\*   cache   the Map, in its iteration order
\*   born    per key present, the number of the insert that put it there
\*   ops     operations performed, inserts so far included
\*   kind    "put" or "expire", the last operation, and key, its key
\* =========================================================================

\* ------------------------------------------------------------- bounds
MaxOps == 3                 \* cache operations in one behaviour
MaxBelow == 2               \* the cache starts with CacheLimit - (0..this) entries

\* the keys operated on: the oldest, the newest of a full cache, and two
\* fresh ones
OpKeys == {1, CacheLimit, CacheLimit + 1, CacheLimit + 2}

CacheKeys(cache) == {cache[i].key : i \in 1..Len(cache)}

CacheInit ==
    /\ BreakerOff
    /\ rt = NoRetry
    /\ \E d \in 0..MaxBelow :
         gw = [pc |-> "cache",
               cache |-> [i \in 1..(CacheLimit - d) |->
                            [key |-> i, response |-> "Hello", timestamp |-> now]],
               born |-> [k \in 1..(CacheLimit - d) |-> k],
               ops |-> CacheLimit - d, kind |-> "init", key |-> 0]

\* setCache(key, response), as executeWithFallbacks calls it
CachePut(key) ==
    /\ gw.ops < CacheLimit + MaxOps
    /\ LET cache == setCache(gw.cache, key, "Hello", now)
           K == DOMAIN gw.born
           K1 == CacheKeys(cache) IN
       gw' = [gw EXCEPT !.cache = cache, !.ops = @ + 1, !.kind = "put", !.key = key,
                        !.born = [k \in K1 |-> IF k \in K THEN gw.born[k] ELSE gw.ops + 1]]
    /\ UNCHANGED <<breakerVars, rt>>

\* getFromCache(key) finding the entry of key expired: Map.delete
CacheExpire(key) ==
    /\ gw.ops < CacheLimit + MaxOps
    /\ cacheIndex(gw.cache, key) > 0
    /\ LET cache == cacheDelete(gw.cache, cacheIndex(gw.cache, key))
           K1 == CacheKeys(cache) IN
       gw' = [gw EXCEPT !.cache = cache, !.ops = @ + 1, !.kind = "expire", !.key = key,
                        !.born = [k \in K1 |-> gw.born[k]]]
    /\ UNCHANGED <<breakerVars, rt>>

CacheNext ==
    \/ \E key \in OpKeys : CachePut(key)
    \/ \E key \in OpKeys : CacheExpire(key)

CacheSpec == CacheInit /\ [][CacheNext]_vars

\* ------------------------------------------------------------- C21

\* an insert that finds the cache full of other keys
PushesAbove == Len(gw.cache) = CacheLimit /\ gw'.key \notin CacheKeys(gw.cache)

C21_Step ==
    (gw'.ops = gw.ops + 1 /\ gw'.kind = "put") =>
        LET K == CacheKeys(gw.cache)
            K1 == CacheKeys(gw'.cache) IN
        /\ Len(gw'.cache) <= CacheLimit
        /\ Cardinality(K1) = Len(gw'.cache)
        /\ IF PushesAbove
           THEN /\ K1 \ K = {gw'.key}
                /\ Cardinality(K \ K1) = 1
                /\ \A o \in K \ K1 : \A k \in K : gw.born[o] <= gw.born[k]
           ELSE K1 = K \cup {gw'.key}

\* C21: after every insert the cache holds at most 1000 entries; an insert
\* that pushes the count above 1000 evicts exactly one entry, the one inserted
\* earliest among those present; any other insert evicts nothing.
C21_EvictOldestInserted == [][C21_Step]_vars

\* key 1 expired and was inserted again, then an insert into the full cache
\* evicted key 2, the oldest inserted by then
C21_Witness ==
    /\ gw.kind = "put"
    /\ Len(gw.cache) = CacheLimit
    /\ gw.key > CacheLimit
    /\ 1 \in CacheKeys(gw.cache)
    /\ 2 \notin CacheKeys(gw.cache)

\* =========================================================================
\* Part 5: LiteLLMAdapter.getCacheKey on pairs of message lists
\*
\* gw holds two message lists (a, b) and, once getCacheKey has been applied to
\* both, their keys (ka, kb).
\* =========================================================================

MaxMessages == 2            \* messages in one list

Roles == {"user", "assistant"}
Contents == {"hi", "bye"}
Timestamps == {Undefined, "2024-01-01T00:00:00.000Z"}

\* interface Message { role; content; timestamp?: Date }
Messages == [role : Roles, content : Contents, timestamp : Timestamps]

TimedMessageLists == UNION {[1..n -> Messages] : n \in 0..MaxMessages}

KeyInit ==
    /\ BreakerOff
    /\ rt = NoRetry
    /\ \E a \in TimedMessageLists, b \in TimedMessageLists :
         gw = [pc |-> "lists", a |-> a, b |-> b, ka |-> <<>>, kb |-> <<>>]

\* getCacheKey(a) and getCacheKey(b)
GetCacheKeys ==
    /\ gw.pc = "lists"
    /\ gw' = [gw EXCEPT !.pc = "keys", !.ka = getCacheKey(gw.a), !.kb = getCacheKey(gw.b)]
    /\ UNCHANGED <<breakerVars, rt>>

KeyNext == GetCacheKeys

KeySpec == KeyInit /\ [][KeyNext]_vars

\* the (role, content) pairs of a message list, in order
RoleContentPairs(messages) ==
    [i \in 1..Len(messages) |-> <<messages[i].role, messages[i].content>>]

\* C22: two message lists with the same (role, content) pairs in the same
\* order have the same cache key whatever their timestamps, and two lists
\* differing in a role, a content or the order have different keys.
C22_KeyOfRoleAndContent ==
    gw.pc = "keys" =>
        ((gw.ka = gw.kb) <=> (RoleContentPairs(gw.a) = RoleContentPairs(gw.b)))

\* =========================================================================
\* Part 6: LiteLLMAdapter.chat, the stream of chunks (src/unnamed/part_006)
\*
\* chat(messages) returns the async generator streamCompletion(messages); its
\* body runs when the consumer asks for the next chunk.  The adapter has its
\* cache and its breaker (cb, config) as in part 3; chatSync is taken as one
\* step here, with the effects part 3 gives it.  gw holds:
\*   provider  the provider kind of primaryModel (the text before the '/')
\*   cfg       the LiteLLMConfig
\*   cache     the Map of CacheEntry
\*   messages  the argument of chat, <<>> before the call
\*   pc        where the generator stands: "idle" (chat not called), "start"
\*             (created, not yet asked), "chatSync" (awaiting chatSync),
\*             "fetch" (awaiting streamOllama's fetch), "read" (awaiting
\*             reader.read()), "yield" (suspended at a yield), "done"
\*             (returned), "failed" (threw error)
\*   emitted   the json.message.content of the lines Ollama emits, in order
\*             ("" for a line without content)
\*   body      what of the response body has not been read yet, in half lines
\*   queue     the contents of the chunk read last that are still to be
\*             yielded
\*   chunks    the chunks yielded so far
\*   fetches   calls of the primary's streaming endpoint so far
\*   chatSyncs invocations of chatSync so far
\*   response  what chatSync returned or threw to the generator
\*   error     the error the generator failed with
\* =========================================================================

MaxEmitted == 2             \* lines Ollama emits in one response

Providers == {"ollama", "openai", "anthropic", "azure"}

\* what chatSync may throw: a provider's error or one of the breaker's
ChatSyncErrors == {ModelErrors[1], ModelErrors[2], TimeoutError, CircuitOpenError}

OllamaStreamError == "Ollama streaming failed"
NetworkError == "fetch failed"

\* how streamOllama's fetch can end: an ok response, one that is not ok, or
\* a rejection
FetchOutcomes == {"ok", "notok", "throws"}

\* the json.message?.content of an emitted line
Fragments == {"Hel", "lo", ""}

EmittedSequences == UNION {[1..n -> Fragments] : n \in 0..MaxEmitted}

\* the response body of the lines emitted, each line in two halves: the
\* transport may end a read anywhere, between two lines or inside one
bodyOf(emitted) ==
    [j \in 1..(2 * Len(emitted)) |->
        [content |-> emitted[(j + 1) \div 2],
         half |-> IF j % 2 = 1 THEN "head" ELSE "tail"]]

\* chunk.split('\n'), JSON.parse of every line, json.message?.content: the
\* contents of the lines that lie whole in the chunk; half a line does not
\* parse and is skipped
parseChunk(chunk) ==
    SelectSeq([j \in 1..Len(chunk) |->
                  IF chunk[j].half = "tail" /\ j > 1 THEN chunk[j].content ELSE ""],
              LAMBDA content : content # "")

\* yield response dropping an empty response
yieldChunk_skipEmpty(chunks, chunk) == IF chunk = "" THEN chunks ELSE Append(chunks, chunk)

\* yield response
yieldChunk(chunks, chunk) == Append(chunks, chunk)

\* streamCompletion sending every provider through chatSync
streamsNatively_never(provider) == FALSE

\* if (provider === 'ollama')
streamsNatively(provider) == provider = "ollama"

\* the adapter's breaker after three failed chatSync calls
OpenedBreaker ==
    [NewBreaker EXCEPT !.state = "OPEN", !.failures = 3, !.lastFailureTime = 1,
                       !.totalCalls = 3, !.totalFailures = 3]

StreamInit ==
    /\ now = 1
    /\ ncalls = 0
    /\ rejected = 0
    /\ pending = <<>>
    /\ abandoned = 0
    /\ last = NoEvent
    /\ failStreak = 0
    /\ succStreak = NoStreak
    /\ probeAt = 0
    /\ rt = NoRetry
    /\ \E provider \in Providers, cfg \in GwConfigs :
         /\ config = AdapterBreakerConfig(cfg)
         /\ cb \in IF cfg.circuitBreakerEnabled THEN {NewBreaker, OpenedBreaker}
                    ELSE {NewBreaker}
         /\ \E cache \in {<<>>} \cup
                  {<<[key |-> k, response |-> "Hello", timestamp |-> 1]>> :
                       k \in IF cfg.cacheEnabled THEN Keys ELSE {}},
               emitted \in IF streamsNatively(provider) THEN EmittedSequences ELSE {<<>>} :
              gw = [pc |-> "idle", provider |-> provider, cfg |-> cfg, cache |-> cache,
                    messages |-> <<>>, emitted |-> emitted, body |-> <<>>, queue |-> <<>>,
                    chunks |-> <<>>, fetches |-> 0, chatSyncs |-> 0,
                    response |-> NoOutcome, error |-> NoError]

streamOthers == <<config, now, ncalls, rejected, pending, abandoned, last, failStreak,
                  succStreak, probeAt, rt>>

\* chat(messages): the generator is created, nothing runs yet
Chat(messages) ==
    /\ gw.pc = "idle"
    /\ gw' = [gw EXCEPT !.pc = "start", !.messages = messages]
    /\ UNCHANGED <<cb, streamOthers>>

\* the consumer asks for the first chunk: streamCompletion runs to its first
\* await, the fetch of streamOllama or chatSync(messages)
StreamStart ==
    /\ gw.pc = "start"
    /\ gw' = IF streamsNatively(gw.provider)
             THEN [gw EXCEPT !.pc = "fetch", !.fetches = @ + 1]
             ELSE [gw EXCEPT !.pc = "chatSync", !.chatSyncs = @ + 1]
    /\ UNCHANGED <<cb, streamOthers>>

\* chatSync returns, from the cache or from a provider through the breaker:
\* yield response
ChatSyncReturns(response) ==
    /\ gw.pc = "chatSync"
    /\ LET key == getCacheKey(gw.messages)
           cached == getFromCache(gw.cfg, gw.cache, key, now)
           r == executeEntry(cb, config, now)
           g1 == [gw EXCEPT !.pc = "yield", !.response = Returned(response),
                            !.chunks = yieldChunk(@, response)] IN
       IF truthy(cached.value)
       THEN /\ response = cached.value.response
            /\ gw' = [g1 EXCEPT !.cache = cached.cache]
            /\ cb' = cb
       ELSE /\ gw.cfg.circuitBreakerEnabled => r.admit
            /\ gw' = [g1 EXCEPT !.cache = IF gw.cfg.cacheEnabled
                                          THEN setCache(cached.cache, key, response, now)
                                          ELSE cached.cache]
            /\ cb' = IF gw.cfg.circuitBreakerEnabled THEN onSuccess(r.b, config) ELSE cb
    /\ UNCHANGED streamOthers

\* chatSync throws (the breaker's rejection or timeout, or the last
\* provider's error): the generator fails with that error
ChatSyncThrows(error) ==
    /\ gw.pc = "chatSync"
    /\ LET key == getCacheKey(gw.messages)
           cached == getFromCache(gw.cfg, gw.cache, key, now)
           r == executeEntry(cb, config, now) IN
       /\ ~truthy(cached.value)
       /\ gw' = [gw EXCEPT !.pc = "failed", !.response = Threw(error), !.error = error,
                           !.cache = cached.cache]
       /\ IF error = CircuitOpenError
          THEN gw.cfg.circuitBreakerEnabled /\ ~r.admit /\ cb' = r.b
          ELSE IF error = TimeoutError
          THEN gw.cfg.circuitBreakerEnabled /\ r.admit /\ cb' = onFailure(r.b, config, now)
          ELSE /\ error = ModelErrors[gw.cfg.models]
               /\ gw.cfg.circuitBreakerEnabled => r.admit
               /\ cb' = IF gw.cfg.circuitBreakerEnabled
                        THEN onFailure(r.b, config, now) ELSE cb
    /\ UNCHANGED streamOthers

\* streamOllama's fetch ends: it throws on !response.ok || !response.body,
\* and a rejected fetch throws by itself
FetchSettles(outcome) ==
    /\ gw.pc = "fetch"
    /\ gw' = IF outcome = "ok" THEN [gw EXCEPT !.pc = "read", !.body = bodyOf(gw.emitted)]
             ELSE IF outcome = "notok"
             THEN [gw EXCEPT !.pc = "failed", !.error = OllamaStreamError]
             ELSE [gw EXCEPT !.pc = "failed", !.error = NetworkError]
    /\ UNCHANGED <<cb, streamOthers>>

\* reader.read() delivers the next n half lines of the body: the contents of
\* the lines that parse are yielded one after the other
ReadChunk(n) ==
    /\ gw.pc = "read"
    /\ n \in 1..Len(gw.body)
    /\ LET contents == parseChunk(SubSeq(gw.body, 1, n))
           g1 == [gw EXCEPT !.body = SubSeq(gw.body, n + 1, Len(gw.body))] IN
       gw' = IF contents = <<>> THEN g1
             ELSE [g1 EXCEPT !.pc = "yield", !.chunks = yieldChunk(@, Head(contents)),
                             !.queue = Tail(contents)]
    /\ UNCHANGED <<cb, streamOthers>>

\* reader.read() reports done at the end of the body: the generator returns
ReadDone ==
    /\ gw.pc = "read"
    /\ gw.body = <<>>
    /\ gw' = [gw EXCEPT !.pc = "done"]
    /\ UNCHANGED <<cb, streamOthers>>

\* reader.read() rejects: the generator fails
ReadFails ==
    /\ gw.pc = "read"
    /\ gw' = [gw EXCEPT !.pc = "failed", !.error = NetworkError]
    /\ UNCHANGED <<cb, streamOthers>>

\* the consumer asks for the next chunk after a yield
StreamResume ==
    /\ gw.pc = "yield"
    /\ gw' = IF ~streamsNatively(gw.provider) THEN [gw EXCEPT !.pc = "done"]
             ELSE IF gw.queue # <<>>
             THEN [gw EXCEPT !.chunks = yieldChunk(@, Head(gw.queue)), !.queue = Tail(@)]
             ELSE [gw EXCEPT !.pc = "read"]
    /\ UNCHANGED <<cb, streamOthers>>

StreamNext ==
    \/ \E messages \in MessageLists : Chat(messages)
    \/ StreamStart
    \/ \E response \in Responses : ChatSyncReturns(response)
    \/ \E error \in ChatSyncErrors : ChatSyncThrows(error)
    \/ \E outcome \in FetchOutcomes : FetchSettles(outcome)
    \/ \E n \in 1..(2 * MaxEmitted) : ReadChunk(n)
    \/ ReadDone
    \/ ReadFails
    \/ StreamResume

StreamSpec == StreamInit /\ [][StreamNext]_vars

\* C27: when the primary provider is not ollama, chat(messages) yields
\* exactly one chunk, the value chatSync(messages) returned, and then ends;
\* if chatSync failed, the sequence fails with the same error and has yielded
\* nothing.
C27_SingleChunk ==
    ~streamsNatively(gw.provider) =>
        /\ gw.pc \in {"idle", "start", "chatSync", "yield", "done", "failed"}
        /\ gw.pc \in {"idle", "start", "chatSync"} =>
              gw.chunks = <<>> /\ gw.response = NoOutcome
        /\ gw.pc \in {"yield", "done"} =>
              \E response \in Responses :
                 gw.response = Returned(response) /\ gw.chunks = <<response>>
        /\ gw.pc = "failed" =>
              \E error \in ChatSyncErrors :
                 /\ gw.response = Threw(error)
                 /\ gw.error = error
                 /\ gw.chunks = <<>>

\* a cloud provider's empty answer was yielded as the one chunk and the
\* sequence ended
C27_Witness ==
    /\ gw.pc = "done"
    /\ gw.provider = "openai"
    /\ gw.response = Returned("")
    /\ gw.chunks = <<"">>

\* C39: for an ollama primary, chat() contacts the primary only and goes
\* round cache, breaker and fallbacks: chatSync is never invoked, the cache
\* and every field of the breaker stay as they are, the first request for a
\* chunk reaches the primary's endpoint also when the breaker is OPEN, and a
\* failure of the primary is what the consumer gets, after that one request.
C39_Step ==
    gw.provider = "ollama" =>
        /\ cb' = cb
        /\ gw'.cache = gw.cache
        /\ gw'.chatSyncs = 0
        /\ gw'.fetches <= 1
        /\ gw'.response = NoOutcome
        /\ (gw.pc = "start" /\ gw'.pc # "start") => gw'.pc = "fetch" /\ gw'.fetches = 1
        /\ (gw.pc # "failed" /\ gw'.pc = "failed") =>
              /\ gw'.error \in {OllamaStreamError, NetworkError}
              /\ gw'.fetches = 1

C39_StreamBypasses == [][C39_Step]_vars

\* the primary's stream failed while the breaker was OPEN, a fallback was
\* configured and the cache held an answer for the messages
C39_Witness ==
    /\ gw.provider = "ollama"
    /\ gw.pc = "failed"
    /\ gw.error = OllamaStreamError
    /\ cb = OpenedBreaker
    /\ gw.cfg.models = 2
    /\ cacheIndex(gw.cache, getCacheKey(gw.messages)) > 0
    /\ gw.fetches = 1
    /\ gw.chatSyncs = 0

\* the content fragments among the lines emitted
ContentFragments(emitted) == SelectSeq(emitted, LAMBDA content : content # "")

\* C40: for an ollama primary the chunks chat() yields are exactly the
\* content fragments the provider emitted, in its order, none dropped,
\* duplicated or reordered, however the lines are split across reads.
C40_ChunksAreFragments ==
    (gw.provider = "ollama" /\ gw.pc = "done") =>
        gw.chunks = ContentFragments(gw.emitted)

\* =========================================================================
\* Part 7: LiteLLMAdapter.isAvailable (src/unnamed/part_006)
\*
\* gw holds:
\*   chain     the provider kinds of primaryModel and the fallbackModels
\*   env       what the checks find: tags, the outcome of Ollama's /api/tags
\*             ("ok", "notok" for a response that is not ok, "throws" for a
\*             network error or the 5 s abort), and whether OPENAI_API_KEY
\*             and ANTHROPIC_API_KEY are set
\*   pc        "idle", "checking" (awaiting checkModelAvailability of the
\*             model at position checked + 1), "done", "failed"
\*   checked   how many models have been checked
\*   result    what isAvailable returned
\* =========================================================================

MaxFallbacks == 2           \* fallbackModels of the adapter

TagsOutcomes == {"ok", "notok", "throws"}

Environments == [tags : TagsOutcomes, openaiKey : BOOLEAN, anthropicKey : BOOLEAN]

Chains == UNION {[1..n -> Providers] : n \in 1..(MaxFallbacks + 1)}

\* checkModelAvailability without its try/catch
checkModelAvailability_rethrows(provider, env) ==
    IF provider = "ollama"
    THEN IF env.tags = "throws" THEN Threw("fetch failed") ELSE Returned(env.tags = "ok")
    ELSE IF provider = "openai" THEN Returned(env.openaiKey)
    ELSE IF provider = "anthropic" THEN Returned(env.anthropicKey)
    ELSE Returned(FALSE)

\* checkModelAvailability: response.ok for ollama, the API key for the cloud
\* providers, false for any other provider and for anything thrown
checkModelAvailability(provider, env) ==
    IF provider = "ollama"
    THEN IF env.tags = "throws" THEN Returned(FALSE) ELSE Returned(env.tags = "ok")
    ELSE IF provider = "openai" THEN Returned(env.openaiKey)
    ELSE IF provider = "anthropic" THEN Returned(env.anthropicKey)
    ELSE Returned(FALSE)

AvailInit ==
    /\ BreakerOff
    /\ rt = NoRetry
    /\ \E chain \in Chains, env \in Environments :
         gw = [pc |-> "idle", chain |-> chain, env |-> env, checked |-> 0, result |-> FALSE]

\* isAvailable(): the check of the primary model is awaited
IsAvailable ==
    /\ gw.pc = "idle"
    /\ gw' = [gw EXCEPT !.pc = "checking"]
    /\ UNCHANGED <<breakerVars, rt>>

\* the awaited check settles: return true, go on to the next model, or
\* return false after the last
CheckSettles ==
    /\ gw.pc = "checking"
    /\ LET r == checkModelAvailability(gw.chain[gw.checked + 1], gw.env) IN
       gw' = IF r.kind = "threw" THEN [gw EXCEPT !.checked = @ + 1, !.pc = "failed"]
             ELSE IF r.val THEN [gw EXCEPT !.checked = @ + 1, !.pc = "done", !.result = TRUE]
             ELSE IF gw.checked + 1 < Len(gw.chain) THEN [gw EXCEPT !.checked = @ + 1]
             ELSE [gw EXCEPT !.checked = @ + 1, !.pc = "done", !.result = FALSE]
    /\ UNCHANGED <<breakerVars, rt>>

AvailNext == IsAvailable \/ CheckSettles

AvailSpec == AvailInit /\ [][AvailNext]_vars

\* the provider reports reachable: Ollama answers /api/tags with an ok
\* response, a cloud provider has its API key
Reachable(provider, env) ==
    \/ provider = "ollama" /\ env.tags = "ok"
    \/ provider = "openai" /\ env.openaiKey
    \/ provider = "anthropic" /\ env.anthropicKey

ReachablePositions == {i \in 1..Len(gw.chain) : Reachable(gw.chain[i], gw.env)}

\* C28: isAvailable() never fails and returns true exactly when some provider
\* of the chain reports reachable; a check that throws counts as not
\* reachable and the providers after it are still checked: the checks stop at
\* the first reachable provider, or after the last provider.
C28_AnyReachable ==
    /\ gw.pc # "failed"
    /\ gw.pc = "done" =>
          /\ gw.result <=> ReachablePositions # {}
          /\ gw.result => gw.checked \in ReachablePositions
          /\ \A i \in ReachablePositions : gw.checked <= i
          /\ ~gw.result => gw.checked = Len(gw.chain)

\* Ollama's check threw and a fallback after it was found reachable
C28_Witness ==
    /\ gw.pc = "done"
    /\ gw.result
    /\ gw.chain[1] = "ollama"
    /\ gw.env.tags = "throws"
    /\ gw.checked = 2

\* =========================================================================
\* Part 8: CircuitBreaker in unbounded time (src/src/utils/circuit-breaker.ts)
\*
\* The breaker of part 1 with calls arriving for ever.  To keep the state
\* finite the lifetime totals (which no decision reads) are not kept, the
\* failure count stops at MaxFailureThreshold (every threshold compares the
\* same from there on), and time is rebased at every tick: Date.now() always
\* reads LiveNow, and a tick moves lastFailureTime and the armed timers one
\* unit into the past instead (the code reads only differences to now).
\* gw holds:
\*   healthy   from here on the operation of every call admitted succeeds
\*             before its timer
\*   old       how many of the pending calls (the first ones) were admitted
\*             before that point; they may still fail or time out
\* =========================================================================

\* the longest resetTimeout configured
MaxResetTimeout ==
    CHOOSE r \in {tm.resetTimeout : tm \in Timings} :
        \A tm \in Timings : tm.resetTimeout <= r

\* what Date.now() reads
LiveNow == MaxResetTimeout + 1

\* the breaker as part 8 keeps it
Forget(b) ==
    [b EXCEPT !.totalCalls = 0, !.totalFailures = 0, !.totalSuccesses = 0,
              !.failures = min(@, MaxFailureThreshold)]

\* a time stamp one unit further in the past
Older(t) == IF t <= 1 THEN t ELSE t - 1

LiveInit ==
    /\ cb = NewBreaker
    /\ config \in Configs
    /\ now = LiveNow
    /\ ncalls = 0
    /\ rejected = 0
    /\ pending = <<>>
    /\ abandoned = 0
    /\ last = NoEvent
    /\ failStreak = 0
    /\ succStreak = NoStreak
    /\ probeAt = 0
    /\ rt = NoRetry
    /\ gw = [pc |-> "live", healthy |-> FALSE, old |-> 0]

liveOthers == <<config, now, ncalls, rejected, failStreak, succStreak, probeAt, rt>>

\* execute(fn), entry, the call is admitted
LiveAdmit ==
    /\ Inflight + abandoned < MaxInflight
    /\ LET r == executeEntry(cb, config, now)
           w == executeWithTimeout(config, now) IN
       /\ r.admit
       /\ cb' = Forget(r.b)
       /\ pending' = Append(pending, w.deadline)
       /\ last' = Event("admit", cb.state)
    /\ UNCHANGED <<abandoned, gw, liveOthers>>

\* execute(fn), entry, the call is rejected
LiveReject ==
    /\ LET r == executeEntry(cb, config, now) IN
       /\ ~r.admit
       /\ cb' = Forget(r.b)
       /\ last' = Event("reject", cb.state)
    /\ UNCHANGED <<pending, abandoned, gw, liveOthers>>

\* the i-th pending call was admitted before the dependency recovered
IsOld(i) == ~gw.healthy \/ i <= gw.old

\* the calls admitted before the recovery once the i-th pending call is gone
OldWithout(i) == IF i <= gw.old THEN gw.old - 1 ELSE gw.old

\* fn of the i-th pending call resolves before the timer fires
LiveResolve(i) ==
    /\ i <= Len(pending)
    /\ cb' = Forget(onSuccess(cb, config))
    /\ pending' = Without(pending, i)
    /\ last' = Event("success", cb.state)
    /\ gw' = [gw EXCEPT !.old = OldWithout(i)]
    /\ UNCHANGED <<abandoned, liveOthers>>

\* fn of the i-th pending call rejects before the timer fires
LiveFail(i) ==
    /\ i <= Len(pending)
    /\ IsOld(i)
    /\ cb' = Forget(onFailure(cb, config, now))
    /\ pending' = Without(pending, i)
    /\ last' = Event("failure", cb.state)
    /\ gw' = [gw EXCEPT !.old = OldWithout(i)]
    /\ UNCHANGED <<abandoned, liveOthers>>

\* the timer of the i-th pending call fires first
LiveTimeout(i) ==
    /\ i <= Len(pending)
    /\ IsOld(i)
    /\ now >= pending[i]
    /\ cb' = Forget(onFailure(cb, config, now))
    /\ pending' = Without(pending, i)
    /\ abandoned' = abandoned + 1
    /\ last' = Event("timeout", cb.state)
    /\ gw' = [gw EXCEPT !.old = OldWithout(i)]
    /\ UNCHANGED liveOthers

\* an operation abandoned by its timed-out call settles
LiveLateSettle ==
    /\ abandoned > 0
    /\ abandoned' = abandoned - 1
    /\ last' = Event("late", cb.state)
    /\ UNCHANGED <<cb, pending, gw, liveOthers>>

\* reset()
LiveReset ==
    /\ cb' = Forget(reset(cb))
    /\ last' = Event("reset", cb.state)
    /\ UNCHANGED <<pending, abandoned, gw, liveOthers>>

\* the dependency recovers: the calls pending now are the old ones
Recover ==
    /\ ~gw.healthy
    /\ gw' = [gw EXCEPT !.healthy = TRUE, !.old = Len(pending)]
    /\ UNCHANGED <<cb, pending, abandoned, last, liveOthers>>

\* a unit of time passes; a due timer fires, or its operation resolves, before
\* time moves on
LiveTick ==
    /\ \A i \in 1..Len(pending) : now < pending[i]
    /\ cb' = [cb EXCEPT !.lastFailureTime = Older(@)]
    /\ pending' = [i \in 1..Len(pending) |-> pending[i] - 1]
    /\ UNCHANGED <<abandoned, last, gw, liveOthers>>

\* a call arrives
LiveArrival == LiveAdmit \/ LiveReject

\* a pending call settles
LiveSettle == \E i \in Slots : LiveResolve(i) \/ LiveFail(i) \/ LiveTimeout(i)

LiveNext ==
    \/ LiveAdmit
    \/ LiveReject
    \/ \E i \in Slots : LiveResolve(i)
    \/ \E i \in Slots : LiveFail(i)
    \/ \E i \in Slots : LiveTimeout(i)
    \/ LiveLateSettle
    \/ LiveReset
    \/ Recover
    \/ LiveTick

\* calls keep arriving, every operation settles, time passes
LiveSpec ==
    /\ LiveInit
    /\ [][LiveNext]_vars
    /\ WF_vars(LiveArrival)
    /\ WF_vars(LiveSettle)
    /\ WF_vars(LiveLateSettle)
    /\ WF_vars(LiveTick)

\* C37: recovery liveness: if from some point on the operation of every call
\* admitted succeeds, and calls keep arriving, the breaker is eventually
\* CLOSED and stays CLOSED: it cannot remain OPEN or HALF_OPEN for ever,
\* whatever calls were rejected or were in flight at that point.
C37_EventuallyClosed == (<>gw.healthy) => <>[](cb.state = "CLOSED")

\* after the recovery the breaker closed from HALF_OPEN on the success of a
\* probe, with another call in flight
C37_Witness ==
    /\ gw.healthy
    /\ gw.old = 0
    /\ cb.state = "CLOSED"
    /\ last.kind = "success"
    /\ last.from = "HALF_OPEN"
    /\ cb.lastFailureTime # 0
    /\ Inflight > 0

====
